---- MODULE Spec2Model ----
(***************************************************************************)
(* The correlated request/response channel of vscode-refactor-mcp: the     *)
(* client side (class VSCodeClient of mcp-server/src/vscode-client.ts),    *)
(* with the WebSocket transports it creates, its pending-request map, its  *)
(* per-request timers and its reconnection timers.                         *)
(*                                                                         *)
(* One action per public method (connect, sendRequest, close), per timer   *)
(* callback and per transport event handler. The owner of the client and   *)
(* the peer are the environment: the owner may call the public methods in  *)
(* any order, the peer may open, fail or close a transport and may send    *)
(* any response envelope.                                                  *)
(*                                                                         *)
(* The server side is the dispatcher of the extension in its three forms:  *)
(* the IPC server (packages/extension/src/ipc/server.ts), the WebSocket    *)
(* server with its handlers (src/websocket/handlers.ts) and the message    *)
(* handler of activate(). Its peers send lines or frames on connections,   *)
(* the editor API completes or fails the handlers it was asked to run.     *)
(***************************************************************************)
EXTENDS Integers, Sequences, FiniteSets, TLC

\* ---------------------------------------------------------------- bounds
\* Calls of connect() made by the owner (reconnections are not counted).
MaxConnectCalls == 2
\* Requests accepted by sendRequest (values of the requestId counter).
MaxRequests == 2
\* Connections accepted by the server.
MaxConns == 2
\* Lines (frames) sent to the server by its peers, over all connections.
MaxLines == 3
\* HTTP client sessions, and HTTP requests made on them.
MaxSessions == 2
MaxHttpRequests == 2

\* ------------------------------------------------------ program constants
MAX_RECONNECT_ATTEMPTS == 5

\* `this.ws = null`
NULL == 0
\* A transport slot that holds no live WebSocket object.
Free == [state |-> "FREE", first |-> FALSE, retry |-> FALSE]

\* Live WebSocket objects are kept in slots, oldest first; an object leaves
\* its slot once it has emitted 'close' (no handler of it can run afterwards).
Slots == 1..MaxConnectCalls
RequestIds == 1..MaxRequests

\* The optional fields of a response envelope: absent, or a string.
Absent == "<absent>"
ResultField == {Absent, "ok"}
ErrorField == {Absent, "", "boom"}
\* VSCodeResponse envelopes the peer may send.
Responses == [id : RequestIds, result : ResultField, error : ErrorField]
\* A frame whose text is not JSON.
NotJson == [text |-> "{not json"]
\* The frames the peer may send.
Messages == Responses \cup {NotJson}

\* ------------------------------------------------------- server constants
Conns == 1..MaxConns
Lines == 1..MaxLines

\* The dispatcher that serves the connections: IpcServer.processMessage,
\* handleMessage of websocket/handlers.ts, or the handler of activate().
Dispatchers == {"ipc", "ws", "inline"}

\* VSCodeCommand
RENAME_FILE == "renameFile"
GET_SETTING == "getSetting"

\* The text on a connection is a sequence of tokens: a request envelope is
\* the token that opens it (with its id, command and arguments) followed by
\* the token that closes it, so that a chunk boundary can fall inside it.
Tok(k) == [k |-> k, n |-> 0, command |-> "", arguments |-> ""]
NL == Tok("\n")
SP == Tok(" ")
JUNK == Tok("{not json")
END == Tok("}")
Begin(n, command, arguments) == [k |-> "{", n |-> n, command |-> command, arguments |-> arguments]

\* `req_${n}`: the id of the request sent as line n.
WireId(n) == "req_" \o ToString(n)

\* command and arguments of the requests the peers send: renameFile with
\* both URIs or with none, getSetting with a key, and a command without
\* handler.
Payloads == {<<RENAME_FILE, "uris">>, <<RENAME_FILE, "none">>,
             <<GET_SETTING, "key">>, <<"doesNotExist", "none">>}

\* What a peer may send as a line: a request, a text that is not JSON, or a
\* blank line.
Garbage == <<"", "{not json">>
Blank == <<"", " ">>
Contents == Payloads \cup {Garbage, Blank}

\* The text of line n: JSON.stringify(request) for a request.
Line(n, content) ==
    CASE content = Garbage -> <<JUNK>>
      [] content = Blank -> <<SP>>
      [] OTHER -> <<Begin(n, content[1], content[2]), END>>

\* The longest chunk a socket can deliver.
MaxChunk == 3 * MaxLines

\* A key whose value is undefined in a JavaScript object.
Undefined == "<undefined>"

\* What the editor API does with an edit it was asked to apply: the promise
\* resolves with success, or rejects with an Error (whose message may be
\* empty).
Outcomes == {[kind |-> "returns", val |-> "true"],
             [kind |-> "throws", val |-> "rename failed"],
             [kind |-> "throws", val |-> ""]}

\* error.message of the SyntaxError thrown by JSON.parse.
SyntaxErrorMessage == "Unexpected token"

\* ---------------------------------------------------- extension constants
\* allTools, by name, in the order of the array.
allTools == <<"rename_file", "rename_symbol", "get_setting", "set_setting">>
ToolNames == {allTools[i] : i \in 1..Len(allTools)}
\* The hosts the extension may run in: vscode.lm.registerTool is a function
\* or is missing, and the tools for which a call of it throws.
Hosts == {h \in [available : BOOLEAN, refuses : SUBSET ToolNames] :
             ~h.available => h.refuses = {}}
\* The builds: which HttpMcpServer is compiled in (the one that takes the
\* tools in its constructor, or the one that takes them in start()), and
\* what connect() of the SDK's McpServer (a dependency, "^1.23.0") does on a
\* server that is connected to a transport: it replaces the transport, or it
\* throws 'Already connected to a transport'.
Builds == [variant : {"constructor", "start"}, sdk : {"replaces", "throws"}]
\* The tool lists an HttpMcpServer is handed.
ToolLists == {{}, {"rename_file"}, ToolNames}
\* The tool implementations: those of packages/server (they ask the
\* extension over the client) and those of packages/extension (they call
\* the editor API).
Implementations == {<<"server", "rename_file">>, <<"server", "rename_symbol">>,
                    <<"extension", "rename_file">>, <<"extension", "rename_symbol">>,
                    <<"extension", "get_setting">>, <<"extension", "set_setting">>}
\* How a tool is called: its implementation directly (an MCP tools/call), or
\* through the invoke callback of registerToolWithVSCode.
Callers == {"direct", "invoke"}
\* The input of a call: it fits the tool's Zod schema, it fits the schema
\* but its URI or configuration key cannot be parsed, or it fails the schema.
Inputs == {"valid", "malformed", "invalid"}
\* Values of typescript.updateImportsOnFileMove.enabled before the call.
SettingValues == {"always", "prompt", "never"}
\* What an awaited request or editor operation does: it succeeds, it
\* resolves with false (applyEdit did not apply the edit), or it rejects.
Completions == {"ok", "refused", "fails"}
\* How a call ended: a CallToolResult that was returned, or an exception.
NoOutcome == [kind |-> "none", isError |-> FALSE, text |-> ""]
Result(isError, text) == [kind |-> "result", isError |-> isError, text |-> text]
Thrown(text) == [kind |-> "thrown", isError |-> FALSE, text |-> text]
\* A request sent to the extension, or a call of the editor API.
Req(op, value) == [op |-> op, value |-> value]
\* No tool is being called.
Idle == [impl |-> <<"none", "none">>, via |-> "direct", input |-> "valid",
         setting |-> "always", cancelled |-> "no", phase |-> "idle",
         importsUpdated |-> FALSE, log |-> << >>,
         returned |-> NoOutcome, out |-> NoOutcome]
\* getConfig(): the settings of the extension. A port is kept as twice its
\* value, so that a setting such as 8080.5 can be told from an integer.
Half == 1
Port(n) == 2 * n
Ports == {Port(0), Port(1), Port(8080), Port(65535), Port(-1), Port(65536),
          Port(8080) + Half, Half}
Configs == [enableHttpServer : BOOLEAN, httpPort : Ports]
DefaultConfig == [enableHttpServer |-> FALSE, httpPort |-> Port(0)]
IsInteger(port) == port % 2 = 0

Sessions == 1..MaxSessions
HttpRequests == 1..MaxHttpRequests
\* An HTTP request that was not made.
NoRequest == [session |-> 0, state |-> "none", via |-> 0, served |-> 0]
\* A transport createSession made for a request whose session id is not in
\* the map: it has no session id of its own.
NewTransport == -1
\* registerAllTools was not called.
NotCalled == [called |-> FALSE, registered |-> << >>, failed |-> << >>, skipped |-> FALSE]

VARIABLES
    transports,         \* slot -> the WebSocket object in it: state, made by the first connect(),
                        \* made by the retry timer
    ws,                 \* this.ws: a slot, or NULL
    reconnectAttempts,  \* this.reconnectAttempts
    reconnectTimers,    \* number of armed setTimeout callbacks of handleDisconnect
    requestId,          \* this.requestId
    pendingRequests,    \* keys of this.pendingRequests
    timeouts,           \* ids whose request timer is armed
    settled,            \* id -> the resolve/reject calls made on the caller's promise
    writes,             \* id -> number of times the request was written to a transport
    connectCalls,       \* number of connect() calls made by the owner
    firstConnect,       \* state of the promise returned by the first connect() call
    firstFailed,        \* the transport of the first connect() call failed while connecting
    consecutive,        \* reconnection attempts started since the last 'open'
    closedByOwner,      \* close() was called and connect() has not been called since
    notConnected,       \* the last step was a sendRequest that threw 'WebSocket is not connected'
    dropped,            \* the last step was a 'message' that settled nobody: "parse" (JSON.parse
                        \* threw, logged by the catch), "unknown id" (no pending record), or "no"
    received            \* number of the frames a server wrote on the client's connection that
                        \* the client's socket has delivered

VARIABLES
    dispatcher,         \* the dispatcher that is running
    server,             \* this.server / this.wss: "listening", "stopped" (undefined), or
                        \* "stop threw": still set after a stop() that ended in an exception
    conns,              \* connection -> "none", "open" or "closed" (the server's socket object)
    sockets,            \* this.sockets / this.clients
    wire,               \* connection -> text sent by the peer and not yet received
    buffer,             \* connection -> `buffer` of the data handler's closure
    tasks,              \* handler invocations suspended in `await`: connection, request,
                        \* lines of the chunk still to process
    written,            \* connection -> frames written on the socket while it was open
    lost,               \* connection -> number of frames written after the socket had closed
    decoded,            \* connection -> ids of the requests JSON.parse returned, in order
    parseErrors,        \* connection -> number of texts JSON.parse rejected
    nextLine,           \* number of lines sent by the peers
    asked               \* line -> the connection it was sent on as a request (0: none) and
                        \* the command it asks for

VARIABLES
    lm,                 \* the host: vscode.lm.registerTool
    build,              \* the build of the extension
    registration,       \* what registerAllTools returned
    httpServer,         \* the HttpMcpServer: "none", "constructed" or "listening"
    handed,             \* the tools the HttpMcpServer was handed
    mcpTools,           \* the tools registered on the McpServer of the SessionManager
    mcpTransport,       \* the transport that McpServer is connected to, or 0
    created,            \* session -> its StreamableHTTPServerTransport: "none", "connected"
                        \* (connect() set its onmessage) or "unconnected"
    sessionTransports,  \* keys of SessionManager.transports
    httpRequests        \* request -> its session, its state and the transport the
                        \* protocol captured to answer it

VARIABLES
    call,               \* the tool call in progress: the implementation, its caller, the
                        \* input, the cancellation token, the position in the
                        \* implementation, the requests it has made and how it ended
    config              \* what getConfig() returns

extVars == <<call, config, lm, build, registration, httpServer, handed, mcpTools,
             mcpTransport, created, sessionTransports, httpRequests>>

vars == <<transports, ws, reconnectAttempts, reconnectTimers, requestId,
          pendingRequests, timeouts, settled, writes, connectCalls, firstConnect,
          firstFailed, consecutive, closedByOwner, notConnected, dropped, received,
          dispatcher, server, conns, sockets, wire, buffer, tasks, written, lost,
          decoded, parseErrors, nextLine, asked,
          call, config, lm, build, registration, httpServer, handed, mcpTools,
          mcpTransport, created, sessionTransports, httpRequests>>

serverVars == <<dispatcher, server, conns, sockets, wire, buffer, tasks, written, lost,
                decoded, parseErrors, nextLine, asked>>

clientVars == <<requestId, pendingRequests, timeouts, settled, writes>>

\* Everything that belongs to the client process.
clientState == <<transports, ws, reconnectAttempts, reconnectTimers, requestId,
                 pendingRequests, timeouts, settled, writes, connectCalls, firstConnect,
                 firstFailed, consecutive, closedByOwner, notConnected, dropped, received>>

\* ---------------------------------------------------------------- helpers
\* WebSocket.readyState of the object in slot t. A transport whose handshake
\* was aborted by close() is CLOSING until it emits 'error' and 'close'.
ReadyState(t) ==
    CASE transports[t].state = "CONNECTING" -> "CONNECTING"
      [] transports[t].state = "OPEN" -> "OPEN"
      [] transports[t].state = "CLOSING" -> "CLOSING"
      [] transports[t].state = "ABORTED" -> "CLOSING"
      [] OTHER -> "CLOSED"

Live == {t \in Slots : transports[t].state # "FREE"}

FreeSlot == CHOOSE t \in Slots : transports[t].state = "FREE" /\ \A u \in Slots : transports[u].state = "FREE" => t <= u

\* The slots once the object in slot t has emitted 'close': the younger
\* objects move down. (this.ws is null by then: handleDisconnect has run.)
Released(t) ==
    [u \in Slots |-> IF u < t THEN transports[u]
                     ELSE IF u + 1 \in Slots THEN transports[u + 1] ELSE Free]

\* `!this.ws || this.ws.readyState !== WebSocket.OPEN` is false.
Connected == ws # NULL /\ ReadyState(ws) = "OPEN"

\* JSON.parse(message) returns (it throws on a text that is not JSON).
IsJson(message) == "text" \notin DOMAIN message

\* JavaScript truthiness of the optional string field `response.error`.
Truthy(e) == e # Absent /\ e # ""

\* resolve(...) or reject(...) called on the promise of request id.
Settle(id, by, kind, val) ==
    [settled EXCEPT ![id] = Append(@, [by |-> by, kind |-> kind, val |-> val])]

\* resolve() / reject() on the promise returned by connect(); a promise that
\* is already settled ignores it. Only the promise of the owner's first call
\* is recorded: a reconnection's promise feeds a logging catch handler alone.
SettleConnect(first, to) ==
    IF first /\ firstConnect = "pending" THEN to ELSE firstConnect

\* ------------------------------------------------------------------- Init
ClientInit ==
    /\ transports = [t \in Slots |-> Free]
    /\ ws = NULL
    /\ reconnectAttempts = 0
    /\ reconnectTimers = 0
    /\ requestId = 0
    /\ pendingRequests = {}
    /\ timeouts = {}
    /\ settled = [i \in RequestIds |-> << >>]
    /\ writes = [i \in RequestIds |-> 0]
    /\ connectCalls = 0
    /\ firstConnect = "none"
    /\ firstFailed = FALSE
    /\ consecutive = 0
    /\ closedByOwner = FALSE
    /\ notConnected = FALSE
    /\ dropped = "no"
    /\ received = 0

\* A server that has started and has no connection yet.
ServerInit(d) ==
    /\ dispatcher = d
    /\ server = "listening"
    /\ conns = [c \in Conns |-> "none"]
    /\ sockets = {}
    /\ wire = [c \in Conns |-> << >>]
    /\ buffer = [c \in Conns |-> << >>]
    /\ tasks = {}
    /\ written = [c \in Conns |-> << >>]
    /\ lost = [c \in Conns |-> 0]
    /\ decoded = [c \in Conns |-> << >>]
    /\ parseErrors = [c \in Conns |-> 0]
    /\ nextLine = 0
    /\ asked = [n \in Lines |-> [conn |-> 0, command |-> ""]]

\* An extension that has not been activated, in host h and build b.
ExtensionInit(h, b, cfg) ==
    /\ call = Idle
    /\ config = cfg
    /\ lm = h
    /\ build = b
    /\ registration = NotCalled
    /\ httpServer = "none"
    /\ handed = {}
    /\ mcpTools = {}
    /\ mcpTransport = 0
    /\ created = [k \in Sessions |-> "none"]
    /\ sessionTransports = {}
    /\ httpRequests = [r \in HttpRequests |-> NoRequest]

ExtensionIdle ==
    ExtensionInit([available |-> TRUE, refuses |-> {}],
                  [variant |-> "constructor", sdk |-> "replaces"],
                  DefaultConfig)

\* The client process (its peer is the environment).
Init == ClientInit /\ ServerInit("ipc") /\ ExtensionIdle

\* The server process with one of its dispatchers (its peers are the
\* environment).
InitServer == ClientInit /\ ExtensionIdle /\ \E d \in Dispatchers : ServerInit(d)

\* The extension process.
InitExtension ==
    /\ ClientInit
    /\ ServerInit("ipc")
    /\ \E h \in Hosts : \E b \in Builds : \E cfg \in Configs : ExtensionInit(h, b, cfg)

\* ---------------------------------------------------------------- connect
\* The body of connect(): a new WebSocket object replaces this.ws, whatever
\* this.ws was; its handlers are bound to this client.
NewWebSocket(first, retry) ==
    /\ transports' = [transports EXCEPT ![FreeSlot] =
                          [state |-> "CONNECTING", first |-> first, retry |-> retry]]
    /\ ws' = FreeSlot

\* connect() called by the owner.
Connect ==
    /\ connectCalls < MaxConnectCalls
    /\ connectCalls' = connectCalls + 1
    /\ NewWebSocket(connectCalls = 0, FALSE)
    /\ firstConnect' = IF connectCalls = 0 THEN "pending" ELSE firstConnect
    /\ closedByOwner' = FALSE
    /\ notConnected' = FALSE
    /\ UNCHANGED <<serverVars, received, extVars>>
    /\ dropped' = "no"
    /\ UNCHANGED <<reconnectAttempts, reconnectTimers, firstFailed, consecutive>>
    /\ UNCHANGED clientVars

\* The setTimeout callback of handleDisconnect: connect().catch(log).
Reconnect ==
    /\ reconnectTimers > 0
    /\ reconnectTimers' = reconnectTimers - 1
    /\ NewWebSocket(FALSE, TRUE)
    /\ consecutive' = consecutive + 1
    /\ notConnected' = FALSE
    /\ UNCHANGED <<serverVars, received, extVars>>
    /\ dropped' = "no"
    /\ UNCHANGED <<reconnectAttempts, connectCalls, firstConnect, firstFailed, closedByOwner>>
    /\ UNCHANGED clientVars

\* A faulty handleDisconnect: the bound is tested with <= instead of <.
HandleDisconnectOffByOne ==
    /\ ws' = NULL
    /\ IF reconnectAttempts <= MAX_RECONNECT_ATTEMPTS
         THEN /\ reconnectAttempts' = reconnectAttempts + 1
              /\ reconnectTimers' = reconnectTimers + 1
         ELSE UNCHANGED <<reconnectAttempts, reconnectTimers>>

\* ------------------------------------------------------- handleDisconnect
HandleDisconnect ==
    /\ ws' = NULL
    /\ IF reconnectAttempts < MAX_RECONNECT_ATTEMPTS
         THEN /\ reconnectAttempts' = reconnectAttempts + 1
              /\ reconnectTimers' = reconnectTimers + 1
         ELSE UNCHANGED <<reconnectAttempts, reconnectTimers>>

\* A faulty 'open' handler: it does not reset this.reconnectAttempts.
OnOpenNoReset(t) ==
    /\ transports[t].state = "CONNECTING"
    /\ transports' = [transports EXCEPT ![t].state = "OPEN"]
    /\ reconnectAttempts' = reconnectAttempts
    /\ firstConnect' = SettleConnect(transports[t].first, "resolved")
    /\ consecutive' = 0
    /\ notConnected' = FALSE
    /\ UNCHANGED <<serverVars, received, extVars>>
    /\ dropped' = "no"
    /\ UNCHANGED <<ws, reconnectTimers, connectCalls, firstFailed, closedByOwner>>
    /\ UNCHANGED clientVars

\* --------------------------------------------------------- 'open' handler
OnOpen(t) ==
    /\ transports[t].state = "CONNECTING"
    /\ transports' = [transports EXCEPT ![t].state = "OPEN"]
    /\ reconnectAttempts' = 0
    /\ firstConnect' = SettleConnect(transports[t].first, "resolved")
    /\ consecutive' = 0
    /\ notConnected' = FALSE
    /\ UNCHANGED <<serverVars, received, extVars>>
    /\ dropped' = "no"
    /\ UNCHANGED <<ws, reconnectTimers, connectCalls, firstFailed, closedByOwner>>
    /\ UNCHANGED clientVars

\* ------------------------------------------- 'error' and 'close' handlers
\* The 'error' handler: reject(error) only while reconnectAttempts is 0.
OnError(t) ==
    firstConnect' = IF reconnectAttempts = 0
                      THEN SettleConnect(transports[t].first, "rejected")
                      ELSE firstConnect

\* A handshake that fails (refused, or aborted by close()): ws emits 'error'
\* and then 'close' in the same turn.
OnConnectFailed(t) ==
    /\ transports[t].state \in {"CONNECTING", "ABORTED"}
    /\ OnError(t)
    /\ HandleDisconnect
    /\ transports' = Released(t)
    /\ firstFailed' = (firstFailed \/ transports[t].first)
    /\ notConnected' = FALSE
    /\ UNCHANGED <<serverVars, received, extVars>>
    /\ dropped' = "no"
    /\ UNCHANGED <<connectCalls, consecutive, closedByOwner>>
    /\ UNCHANGED clientVars

\* 'close' of a transport that had opened: the peer dropped it, or the
\* closing handshake started by close() has ended.
OnClose(t) ==
    /\ transports[t].state \in {"OPEN", "CLOSING"}
    /\ HandleDisconnect
    /\ transports' = Released(t)
    /\ notConnected' = FALSE
    /\ UNCHANGED <<serverVars, received, extVars>>
    /\ dropped' = "no"
    /\ UNCHANGED <<connectCalls, firstConnect, firstFailed, consecutive, closedByOwner>>
    /\ UNCHANGED clientVars

\* A faulty sendRequest: the guard tests this.ws alone, not its readyState.
SendRequestNullCheckOnly(encodable) ==
    /\ IF ws = NULL
         THEN /\ notConnected' = TRUE
              /\ UNCHANGED clientVars
         ELSE /\ requestId < MaxRequests
              /\ requestId' = requestId + 1
              /\ timeouts' = timeouts \cup {requestId + 1}
              /\ pendingRequests' = pendingRequests \cup {requestId + 1}
              /\ notConnected' = FALSE
              /\ IF encodable
                   THEN /\ writes' = [writes EXCEPT ![requestId + 1] = @ + 1]
                        /\ settled' = settled
                   ELSE /\ writes' = writes
                        /\ settled' = Settle(requestId + 1, "throw", "reject", "encode")
    /\ dropped' = "no"
    /\ UNCHANGED <<transports, ws, reconnectAttempts, reconnectTimers, connectCalls,
                   firstConnect, firstFailed, consecutive, closedByOwner>>
    /\ UNCHANGED <<serverVars, received, extVars>>

\* A faulty sendRequest: generateRequestId leaves the counter out of the id
\* (`req_${Date.now()}`), so two calls within one clock tick get the same id.
SendRequestClockId(encodable) ==
    /\ IF ~Connected
         THEN /\ notConnected' = TRUE
              /\ UNCHANGED clientVars
         ELSE /\ requestId < MaxRequests
              /\ requestId' = requestId + 1
              /\ notConnected' = FALSE
              /\ \E id \in RequestIds :
                    /\ timeouts' = timeouts \cup {id}
                    /\ pendingRequests' = pendingRequests \cup {id}
                    /\ IF encodable
                         THEN /\ writes' = [writes EXCEPT ![id] = @ + 1]
                              /\ settled' = settled
                         ELSE /\ writes' = writes
                              /\ settled' = Settle(id, "throw", "reject", "encode")
    /\ dropped' = "no"
    /\ UNCHANGED <<transports, ws, reconnectAttempts, reconnectTimers, connectCalls,
                   firstConnect, firstFailed, consecutive, closedByOwner>>
    /\ UNCHANGED <<serverVars, received, extVars>>

\* ------------------------------------------------------------ sendRequest
\* encodable: JSON.stringify(request) returns (it throws on arguments that
\* JSON cannot represent, inside the promise executor, after the record and
\* the timer were set up).
SendRequest(encodable) ==
    /\ IF ~Connected
         THEN /\ notConnected' = TRUE
              /\ UNCHANGED clientVars
         ELSE /\ requestId < MaxRequests
              /\ requestId' = requestId + 1
              /\ timeouts' = timeouts \cup {requestId + 1}
              /\ pendingRequests' = pendingRequests \cup {requestId + 1}
              /\ notConnected' = FALSE
              /\ IF encodable
                   THEN /\ writes' = [writes EXCEPT ![requestId + 1] = @ + 1]
                        /\ settled' = settled
                   ELSE /\ writes' = writes
                        /\ settled' = Settle(requestId + 1, "throw", "reject", "encode")
    /\ dropped' = "no"
    /\ UNCHANGED <<transports, ws, reconnectAttempts, reconnectTimers, connectCalls,
                   firstConnect, firstFailed, consecutive, closedByOwner>>
    /\ UNCHANGED <<serverVars, received, extVars>>

\* The request's setTimeout callback.
OnTimeout(id) ==
    /\ id \in timeouts
    /\ timeouts' = timeouts \ {id}
    /\ pendingRequests' = pendingRequests \ {id}
    /\ settled' = Settle(id, "timeout", "reject", "Request timeout")
    /\ notConnected' = FALSE
    /\ UNCHANGED <<serverVars, received, extVars>>
    /\ dropped' = "no"
    /\ UNCHANGED <<transports, ws, reconnectAttempts, reconnectTimers, requestId, writes,
                   connectCalls, firstConnect, firstFailed, consecutive, closedByOwner>>

\* A faulty handleMessage: it takes the oldest pending record, whatever id
\* the response carries.
HandleMessageOldest(response) ==
    IF ~IsJson(response)
      THEN /\ dropped' = "parse"
           /\ UNCHANGED <<timeouts, pendingRequests, settled>>
      ELSE IF pendingRequests # {}
             THEN LET id == CHOOSE i \in pendingRequests : \A j \in pendingRequests : i <= j
                  IN /\ timeouts' = timeouts \ {id}
                     /\ pendingRequests' = pendingRequests \ {id}
                     /\ IF Truthy(response.error)
                          THEN settled' = Settle(id, "response", "reject", response.error)
                          ELSE settled' = Settle(id, "response", "resolve", response.result)
                     /\ dropped' = "no"
             ELSE /\ dropped' = "unknown id"
                  /\ UNCHANGED <<timeouts, pendingRequests, settled>>

\* A faulty handleMessage: it does not clear the timer of the request.
HandleMessageKeepsTimer(response) ==
    IF ~IsJson(response)
      THEN /\ dropped' = "parse"
           /\ UNCHANGED <<timeouts, pendingRequests, settled>>
      ELSE IF response.id \in pendingRequests
             THEN /\ timeouts' = timeouts
                  /\ pendingRequests' = pendingRequests \ {response.id}
                  /\ IF Truthy(response.error)
                       THEN settled' = Settle(response.id, "response", "reject", response.error)
                       ELSE settled' = Settle(response.id, "response", "resolve", response.result)
                  /\ dropped' = "no"
             ELSE /\ dropped' = "unknown id"
                  /\ UNCHANGED <<timeouts, pendingRequests, settled>>

\* A faulty handleMessage: a text that is not JSON disarms every timer.
HandleMessageParseFailureClearsTimers(message) ==
    IF ~IsJson(message)
      THEN /\ dropped' = "parse"
           /\ timeouts' = {}
           /\ UNCHANGED <<pendingRequests, settled>>
      ELSE LET response == message
           IN IF response.id \in pendingRequests
                THEN /\ timeouts' = timeouts \ {response.id}
                     /\ pendingRequests' = pendingRequests \ {response.id}
                     /\ IF Truthy(response.error)
                          THEN /\ settled' = Settle(response.id, "response", "reject", response.error)
                          ELSE /\ settled' = Settle(response.id, "response", "resolve", response.result)
                     /\ dropped' = "no"
                ELSE /\ dropped' = "unknown id"
                     /\ UNCHANGED <<timeouts, pendingRequests, settled>>

\* A faulty handleMessage: a response with an unknown id empties the map.
HandleMessageUnknownIdClearsMap(message) ==
    IF ~IsJson(message)
      THEN /\ dropped' = "parse"
           /\ UNCHANGED <<timeouts, pendingRequests, settled>>
      ELSE LET response == message
           IN IF response.id \in pendingRequests
                THEN /\ timeouts' = timeouts \ {response.id}
                     /\ pendingRequests' = pendingRequests \ {response.id}
                     /\ IF Truthy(response.error)
                          THEN /\ settled' = Settle(response.id, "response", "reject", response.error)
                          ELSE /\ settled' = Settle(response.id, "response", "resolve", response.result)
                     /\ dropped' = "no"
                ELSE /\ dropped' = "unknown id"
                     /\ timeouts' = {}
                     /\ pendingRequests' = {}
                     /\ settled' = settled

\* A faulty handleMessage: it resolves with the error field of the envelope,
\* not with its result field.
HandleMessageResolvesError(message) ==
    IF ~IsJson(message)
      THEN /\ dropped' = "parse"
           /\ UNCHANGED <<timeouts, pendingRequests, settled>>
      ELSE LET response == message
           IN IF response.id \in pendingRequests
                THEN /\ timeouts' = timeouts \ {response.id}
                     /\ pendingRequests' = pendingRequests \ {response.id}
                     /\ IF Truthy(response.error)
                          THEN /\ settled' = Settle(response.id, "response", "reject", response.error)
                          ELSE /\ settled' = Settle(response.id, "response", "resolve", response.error)
                     /\ dropped' = "no"
                ELSE /\ dropped' = "unknown id"
                     /\ UNCHANGED <<timeouts, pendingRequests, settled>>

\* ---------------------------------------------------------- handleMessage
\* message: the frame's text, as what JSON.parse makes of it.
HandleMessage(message) ==
    IF ~IsJson(message)
      THEN /\ dropped' = "parse"
           /\ UNCHANGED <<timeouts, pendingRequests, settled>>
      ELSE LET response == message
           IN IF response.id \in pendingRequests
                THEN /\ timeouts' = timeouts \ {response.id}
                     /\ pendingRequests' = pendingRequests \ {response.id}
                     /\ IF Truthy(response.error)
                          THEN /\ settled' = Settle(response.id, "response", "reject", response.error)
                          ELSE /\ settled' = Settle(response.id, "response", "resolve", response.result)
                     /\ dropped' = "no"
                ELSE /\ dropped' = "unknown id"
                     /\ UNCHANGED <<timeouts, pendingRequests, settled>>

\* 'message' on a transport whose socket is still up (a closing WebSocket
\* delivers frames until the peer's close frame).
OnMessage(t, message) ==
    /\ transports[t].state \in {"OPEN", "CLOSING"}
    /\ HandleMessage(message)
    /\ notConnected' = FALSE
    /\ UNCHANGED <<serverVars, received, extVars>>
    /\ UNCHANGED <<transports, ws, reconnectAttempts, reconnectTimers, requestId, writes,
                   connectCalls, firstConnect, firstFailed, consecutive, closedByOwner>>

\* ------------------------------------------------------------------ close
\* pendingRequests.forEach(({reject}) => reject(new Error('Connection closed')))
RECURSIVE RejectAll(_, _)
RejectAll(ids, s) ==
    IF ids = {} THEN s
    ELSE LET i == CHOOSE x \in ids : TRUE
         IN RejectAll(ids \ {i},
                [s EXCEPT ![i] = Append(@, [by |-> "close", kind |-> "reject", val |-> "Connection closed"])])

\* A faulty close(): it clears the timers and the map without rejecting.
CloseWithoutReject ==
    /\ IF ws # NULL
         THEN transports' = [transports EXCEPT ![ws].state =
                                CASE ReadyState(ws) = "CONNECTING" -> "ABORTED"
                                  [] ReadyState(ws) = "OPEN" -> "CLOSING"
                                  [] OTHER -> @]
         ELSE transports' = transports
    /\ ws' = NULL
    /\ timeouts' = timeouts \ pendingRequests
    /\ settled' = settled
    /\ pendingRequests' = {}
    /\ closedByOwner' = TRUE
    /\ notConnected' = FALSE
    /\ UNCHANGED <<serverVars, received, extVars>>
    /\ dropped' = "no"
    /\ UNCHANGED <<reconnectAttempts, reconnectTimers, requestId, writes, connectCalls,
                   firstConnect, firstFailed, consecutive>>

Close ==
    /\ IF ws # NULL
         THEN transports' = [transports EXCEPT ![ws].state =
                                CASE ReadyState(ws) = "CONNECTING" -> "ABORTED"
                                  [] ReadyState(ws) = "OPEN" -> "CLOSING"
                                  [] OTHER -> @]
         ELSE transports' = transports
    /\ ws' = NULL
    /\ timeouts' = timeouts \ pendingRequests
    /\ settled' = RejectAll(pendingRequests, settled)
    /\ pendingRequests' = {}
    /\ closedByOwner' = TRUE
    /\ notConnected' = FALSE
    /\ UNCHANGED <<serverVars, received, extVars>>
    /\ dropped' = "no"
    /\ UNCHANGED <<reconnectAttempts, reconnectTimers, requestId, writes, connectCalls,
                   firstConnect, firstFailed, consecutive>>

\* ------------------------------------------------------ server: the text
\* `text.split("\n")`
RECURSIVE Split(_)
Split(text) ==
    IF \A i \in 1..Len(text) : text[i] # NL
      THEN <<text>>
      ELSE LET i == CHOOSE j \in 1..Len(text) : text[j] = NL /\ \A h \in 1..(j - 1) : text[h] # NL
           IN <<SubSeq(text, 1, i - 1)>> \o Split(SubSeq(text, i + 1, Len(text)))

\* `line.trim()` is truthy.
NonBlank(line) == \E i \in 1..Len(line) : line[i] # SP

IsInk(t) == t # SP

\* JSON.parse(text) returns (white space around the envelope is skipped).
Parses(text) ==
    LET t == SelectSeq(text, IsInk)
    IN Len(t) = 2 /\ t[1].k = "{" /\ t[2] = END

\* The request envelope JSON.parse(text) returns.
JsonParse(text) ==
    LET t == SelectSeq(text, IsInk)
    IN [id |-> WireId(t[1].n), command |-> t[1].command, arguments |-> t[1].arguments]

\* JSON.stringify(response): a key whose value is undefined is left out.
Stringify(response) ==
    [f \in DOMAIN response |-> IF response[f] = Undefined THEN Absent ELSE response[f]]

\* ------------------------------------------- server: IpcServer.processMessage
\* The response of a command that ends without waiting for the editor:
\* getSetting (its own try/catch turns the TypeError of a missing key into
\* the error) and the default case of the switch.
IpcResponse(request) ==
    LET response == [id |-> request.id, result |-> Undefined, error |-> Undefined]
    IN CASE request.command = GET_SETTING ->
              IF request.arguments = "key"
                THEN [response EXCEPT !.result = "{value}"]
                ELSE [response EXCEPT !.error = "Cannot read properties of undefined"]
         [] OTHER -> [response EXCEPT !.error = "Unknown command: " \o request.command]

\* The response of renameFile once `await vscode.workspace.applyEdit(edit)`
\* has returned or thrown (the inner catch of processMessage).
IpcSettled(request, outcome) ==
    LET response == [id |-> request.id, result |-> Undefined, error |-> Undefined]
    IN IF outcome.kind = "returns"
         THEN [response EXCEPT !.result = "{success:" \o outcome.val \o "}"]
         ELSE [response EXCEPT !.error = outcome.val]

\* A faulty loop: processMessage is called without `await`, so the loop
\* goes on with the next line while the handler is suspended.
RECURSIVE RunLinesNoAwait(_, _, _)
RunLinesNoAwait(c, lines, acc) ==
    IF lines = << >>
      THEN acc
      ELSE LET line == Head(lines)
               rest == Tail(lines)
           IN IF ~NonBlank(line)
                THEN RunLinesNoAwait(c, rest, acc)
                ELSE IF ~Parses(line)
                       THEN RunLinesNoAwait(c, rest, [acc EXCEPT !.parseErrors = @ + 1])
                       ELSE LET request == JsonParse(line)
                                seen == [acc EXCEPT !.decoded = Append(@, request.id)]
                            IN IF request.command = RENAME_FILE
                                 THEN RunLinesNoAwait(c, rest,
                                        [seen EXCEPT !.task = @ \cup {[conn |-> c, request |-> request, rest |-> << >>]}])
                                 ELSE RunLinesNoAwait(c, rest,
                                        [seen EXCEPT !.out = Append(@, Stringify(IpcResponse(request)))])

\* The loop of the data handler over the complete lines of a chunk, up to
\* the end of the chunk or to the first `await` that waits for the editor.
\* acc: frames written, ids decoded and parse failures of the connection so
\* far, and the invocation left suspended.
RECURSIVE RunLines(_, _, _)
RunLines(c, lines, acc) ==
    IF lines = << >>
      THEN acc
      ELSE LET line == Head(lines)
               rest == Tail(lines)
           IN IF ~NonBlank(line)
                THEN RunLines(c, rest, acc)
                ELSE IF ~Parses(line)
                       THEN RunLines(c, rest, [acc EXCEPT !.parseErrors = @ + 1])
                       ELSE LET request == JsonParse(line)
                                seen == [acc EXCEPT !.decoded = Append(@, request.id)]
                            IN IF request.command = RENAME_FILE
                                 THEN [seen EXCEPT !.task = {[conn |-> c, request |-> request, rest |-> rest]}]
                                 ELSE RunLines(c, rest,
                                               [seen EXCEPT !.out = Append(@, Stringify(IpcResponse(request)))])

\* ------------------------------------------ server: websocket/handlers.ts
\* A faulty sendError: the frame carries a result next to the error.
SendErrorWithResult(id, error) == Stringify([id |-> id, result |-> "null", error |-> error])

\* sendResponse(ws, id, result) and sendError(ws, id, error): the frame sent.
SendResponse(id, result) == Stringify([id |-> id, result |-> result, error |-> Undefined])
SendError(id, error) == Stringify([id |-> id, result |-> Undefined, error |-> error])

\* The error of a command without handler: handleMessage of handlers.ts
\* names the command, the handler of activate() does not.
UnknownCommand(command) ==
    IF dispatcher = "ws" THEN "Unknown command: " \o command ELSE "Unknown command"

\* The frame sent when JSON.parse throws: handleMessage of handlers.ts sends
\* the id 'unknown', the handler of activate() sends no id.
ParseFailure ==
    SendError(IF dispatcher = "ws" THEN "unknown" ELSE Undefined, SyntaxErrorMessage)

\* handleMessage(ws, message), up to its end or to the `await` of
\* handleRenameFile.
WsHandleMessage(c, message, acc) ==
    IF ~Parses(message)
      THEN [acc EXCEPT !.parseErrors = @ + 1, !.out = Append(@, ParseFailure)]
      ELSE LET data == JsonParse(message)
               seen == [acc EXCEPT !.decoded = Append(@, data.id)]
           IN IF data.command = RENAME_FILE
                THEN IF data.arguments = "none"
                       THEN [seen EXCEPT !.out = Append(@, SendError(data.id, "Missing oldUri or newUri"))]
                       ELSE [seen EXCEPT !.task = {[conn |-> c, request |-> data, rest |-> << >>]}]
                ELSE [seen EXCEPT !.out = Append(@, SendError(data.id, UnknownCommand(data.command)))]

\* The frame handleRenameFile sends once applyEdit has returned or thrown.
WsSettled(request, outcome) ==
    IF outcome.kind = "returns"
      THEN SendResponse(request.id, outcome.val)
      ELSE SendError(request.id, outcome.val)

\* ------------------------------------------------------- server: actions
\* The state of connection c a handler invocation starts from.
Start(c) == [out |-> << >>, decoded |-> decoded[c], parseErrors |-> parseErrors[c], task |-> {}]

\* The effects of a handler invocation on connection c. A frame written on
\* a socket that has closed reaches nobody.
Commit(c, acc) ==
    /\ IF conns[c] = "open"
         THEN /\ written' = [written EXCEPT ![c] = @ \o acc.out]
              /\ lost' = lost
         ELSE /\ lost' = [lost EXCEPT ![c] = @ + Len(acc.out)]
              /\ written' = written
    /\ decoded' = [decoded EXCEPT ![c] = acc.decoded]
    /\ parseErrors' = [parseErrors EXCEPT ![c] = acc.parseErrors]

\* handleConnection: a peer has connected.
Accept(c) ==
    /\ server # "stopped"
    /\ conns[c] = "none"
    /\ \A b \in Conns : b < c => conns[b] # "none"
    /\ conns' = [conns EXCEPT ![c] = "open"]
    /\ sockets' = IF dispatcher = "inline" THEN sockets ELSE sockets \cup {c}
    /\ UNCHANGED <<dispatcher, server, wire, buffer, tasks, written, lost, decoded, parseErrors,
                   nextLine, asked>>
    /\ UNCHANGED <<clientState, extVars>>

\* The peer of connection c sends a line (a frame).
PeerSend(c, content) ==
    /\ conns[c] = "open"
    /\ nextLine < MaxLines
    /\ nextLine' = nextLine + 1
    /\ wire' = [wire EXCEPT ![c] = @ \o Line(nextLine + 1, content) \o <<NL>>]
    /\ asked' = IF content \in Payloads
                  THEN [asked EXCEPT ![nextLine + 1] = [conn |-> c, command |-> content[1]]]
                  ELSE asked
    /\ UNCHANGED <<dispatcher, server, conns, sockets, buffer, tasks, written, lost, decoded,
                   parseErrors>>
    /\ UNCHANGED <<clientState, extVars>>

\* A faulty 'data' handler: `buffer` is a field of the server, shared by the
\* connections, not a variable of the connection's closure.
DataSharedBuffer(c, k) ==
    /\ dispatcher = "ipc"
    /\ conns[c] = "open"
    /\ k \in 1..Len(wire[c])
    /\ LET data == SubSeq(wire[c], 1, k)
           lines == Split(buffer[c] \o data)
           acc == RunLines(c, SubSeq(lines, 1, Len(lines) - 1), Start(c))
       IN /\ wire' = [wire EXCEPT ![c] = SubSeq(@, k + 1, Len(@))]
          /\ buffer' = [d \in Conns |-> lines[Len(lines)]]
          /\ tasks' = tasks \cup acc.task
          /\ Commit(c, acc)
    /\ UNCHANGED <<dispatcher, server, conns, sockets, nextLine, asked>>
    /\ UNCHANGED <<clientState, extVars>>

\* The 'data' handler of the IPC server: the socket delivers the next k
\* tokens as one chunk.
Data(c, k) ==
    /\ dispatcher = "ipc"
    /\ conns[c] = "open"
    /\ k \in 1..Len(wire[c])
    /\ LET data == SubSeq(wire[c], 1, k)
           lines == Split(buffer[c] \o data)
           acc == RunLines(c, SubSeq(lines, 1, Len(lines) - 1), Start(c))
       IN /\ wire' = [wire EXCEPT ![c] = SubSeq(@, k + 1, Len(@))]
          /\ buffer' = [buffer EXCEPT ![c] = lines[Len(lines)]]
          /\ tasks' = tasks \cup acc.task
          /\ Commit(c, acc)
    /\ UNCHANGED <<dispatcher, server, conns, sockets, nextLine, asked>>
    /\ UNCHANGED <<clientState, extVars>>

\* The 'message' handler of the WebSocket servers: the socket delivers the
\* next frame.
Message(c) ==
    /\ dispatcher # "ipc"
    /\ conns[c] = "open"
    /\ \E i \in 1..Len(wire[c]) : wire[c][i] = NL
    /\ LET frames == Split(wire[c])
           acc == WsHandleMessage(c, frames[1], Start(c))
       IN /\ wire' = [wire EXCEPT ![c] = SubSeq(@, Len(frames[1]) + 2, Len(@))]
          /\ tasks' = tasks \cup acc.task
          /\ Commit(c, acc)
    /\ UNCHANGED <<dispatcher, server, conns, sockets, buffer, nextLine, asked>>
    /\ UNCHANGED <<clientState, extVars>>

\* The handler of the request with this id is waiting for the editor.
InFlight(id) == \E task \in tasks : task.request.id = id
TaskOf(id) == CHOOSE task \in tasks : task.request.id = id

\* A faulty completion: a handler that throws is only logged, no response is
\* written for its request.
HandlerDoneLogsFailure(n, outcome) ==
    /\ InFlight(WireId(n))
    /\ LET task == TaskOf(WireId(n))
           c == task.conn
           first == IF outcome.kind = "throws" THEN << >>
                    ELSE IF dispatcher = "ipc" THEN <<Stringify(IpcSettled(task.request, outcome))>>
                    ELSE <<WsSettled(task.request, outcome)>>
           acc == IF dispatcher = "ipc"
                    THEN RunLines(c, task.rest, [Start(c) EXCEPT !.out = first])
                    ELSE [Start(c) EXCEPT !.out = first]
       IN /\ tasks' = (tasks \ {task}) \cup acc.task
          /\ Commit(c, acc)
    /\ UNCHANGED <<dispatcher, server, conns, sockets, wire, buffer, nextLine, asked>>
    /\ UNCHANGED <<clientState, extVars>>

\* A faulty completion: a handler that throws takes the other suspended
\* invocations down with it.
HandlerDoneAbortsOthers(n, outcome) ==
    /\ InFlight(WireId(n))
    /\ LET task == TaskOf(WireId(n))
           c == task.conn
           acc == IF dispatcher = "ipc"
                    THEN RunLines(c, task.rest,
                                  [Start(c) EXCEPT !.out = <<Stringify(IpcSettled(task.request, outcome))>>])
                    ELSE [Start(c) EXCEPT !.out = <<WsSettled(task.request, outcome)>>]
       IN /\ tasks' = IF outcome.kind = "throws" THEN acc.task ELSE (tasks \ {task}) \cup acc.task
          /\ Commit(c, acc)
    /\ UNCHANGED <<dispatcher, server, conns, sockets, wire, buffer, nextLine, asked>>
    /\ UNCHANGED <<clientState, extVars>>

\* applyEdit returns or throws: the suspended invocation writes its response
\* and, in the IPC server, goes on with the remaining lines of its chunk.
HandlerDone(n, outcome) ==
    /\ InFlight(WireId(n))
    /\ LET task == TaskOf(WireId(n))
           c == task.conn
           acc == IF dispatcher = "ipc"
                    THEN RunLines(c, task.rest,
                                  [Start(c) EXCEPT !.out = <<Stringify(IpcSettled(task.request, outcome))>>])
                    ELSE [Start(c) EXCEPT !.out = <<WsSettled(task.request, outcome)>>]
       IN /\ tasks' = (tasks \ {task}) \cup acc.task
          /\ Commit(c, acc)
    /\ UNCHANGED <<dispatcher, server, conns, sockets, wire, buffer, nextLine, asked>>
    /\ UNCHANGED <<clientState, extVars>>

\* A faulty 'close' handler: the socket is not taken out of the registry.
SocketCloseKeepsSocket(c) ==
    /\ conns[c] = "open"
    /\ conns' = [conns EXCEPT ![c] = "closed"]
    /\ sockets' = sockets
    /\ wire' = [wire EXCEPT ![c] = << >>]
    /\ UNCHANGED <<dispatcher, server, buffer, tasks, written, lost, decoded, parseErrors,
                   nextLine, asked>>
    /\ UNCHANGED <<clientState, extVars>>

\* The 'close' handler of a connection (after 'error', if the socket
\* failed): the socket leaves the registry; what the peer had sent and was
\* not received is gone.
SocketClose(c) ==
    /\ conns[c] = "open"
    /\ conns' = [conns EXCEPT ![c] = "closed"]
    /\ sockets' = sockets \ {c}
    /\ wire' = [wire EXCEPT ![c] = << >>]
    /\ UNCHANGED <<dispatcher, server, buffer, tasks, written, lost, decoded, parseErrors,
                   nextLine, asked>>
    /\ UNCHANGED <<clientState, extVars>>

\* What a call of socket.destroy() / client.close() does.
CloseOutcomes == {"closed", "throws"}

\* stop() of IpcServer and of VSCodeWebSocketServer. The registry is a Set,
\* visited in insertion order; outcome[c] is what closing connection c does.
\* An exception leaves forEach at once: clear() and server.close() are not
\* reached. The 'close' events of the connections that were closed are part
\* of the step.
Stop(outcome) ==
    /\ dispatcher # "inline"
    /\ server # "stopped"
    /\ LET throwers == {c \in sockets : outcome[c] = "throws"}
           closedOnes == {c \in sockets : \A t \in throwers : c < t}
       IN /\ conns' = [c \in Conns |-> IF c \in closedOnes THEN "closed" ELSE conns[c]]
          /\ wire' = [c \in Conns |-> IF c \in closedOnes THEN << >> ELSE wire[c]]
          /\ sockets' = IF throwers = {} THEN {} ELSE sockets \ closedOnes
          /\ server' = IF throwers = {} THEN "stopped" ELSE "stop threw"
    /\ UNCHANGED <<dispatcher, buffer, tasks, written, lost, decoded, parseErrors,
                   nextLine, asked>>
    /\ UNCHANGED <<clientState, extVars>>

\* ------------------------------------------- a client and a server, linked
\* The client's one transport is the server's connection 1. The key of
\* pendingRequests that a frame's id is (0: the id of no request).
RequestKey(id) ==
    IF \E n \in RequestIds : WireId(n) = id
      THEN CHOOSE n \in RequestIds : WireId(n) = id
      ELSE 0

\* JSON.parse(message) of a frame the server wrote.
FromWire(frame) == [id |-> RequestKey(frame.id), result |-> frame.result, error |-> frame.error]

\* The owner's connect().
Dial == connectCalls = 0 /\ Connect

\* The server accepts the client's connection.
Handshake == transports[1].state = "CONNECTING" /\ Accept(1)

\* The handshake has ended: the client's 'open'.
Opened == conns[1] = "open" /\ OnOpen(1)

\* The text this.ws.send(JSON.stringify(request)) wrote reaches the server;
\* content is the command and the arguments the caller gave.
Forward(content) ==
    /\ content \in Payloads
    /\ nextLine < requestId
    /\ writes[nextLine + 1] = 1
    /\ PeerSend(1, content)

\* The next frame the server wrote reaches the client: 'message'.
Return ==
    /\ transports[1].state \in {"OPEN", "CLOSING"}
    /\ received < Len(written[1])
    /\ received' = received + 1
    /\ HandleMessage(FromWire(written[1][received + 1]))
    /\ notConnected' = FALSE
    /\ UNCHANGED <<serverVars, extVars>>
    /\ UNCHANGED <<transports, ws, reconnectAttempts, reconnectTimers, requestId, writes,
                   connectCalls, firstConnect, firstFailed, consecutive, closedByOwner>>

\* ------------------------------------------------- extension: the tools
\* A faulty loop: the first registration that throws ends it.
RECURSIVE RegisterEachUntilFailure(_, _)
RegisterEachUntilFailure(tools, acc) ==
    IF tools = << >> THEN acc
    ELSE LET tool == Head(tools)
         IN IF tool \in lm.refuses
              THEN [acc EXCEPT !.failed = Append(@, [name |-> tool, error |-> "registerTool threw"])]
              ELSE RegisterEachUntilFailure(Tail(tools), [acc EXCEPT !.registered = Append(@, tool)])

\* The loop of registerAllTools: registerToolWithVSCode(context, tool) in a
\* try/catch, for each tool of the array.
RECURSIVE RegisterEach(_, _)
RegisterEach(tools, acc) ==
    IF tools = << >> THEN acc
    ELSE LET tool == Head(tools)
         IN RegisterEach(Tail(tools),
               IF tool \in lm.refuses
                 THEN [acc EXCEPT !.failed = Append(@, [name |-> tool, error |-> "registerTool threw"])]
                 ELSE [acc EXCEPT !.registered = Append(@, tool)])

\* registerAllTools(context), called by activate().
RegisterAllTools ==
    /\ ~registration.called
    /\ registration' =
          IF ~lm.available
            THEN [called |-> TRUE, registered |-> << >>, failed |-> << >>, skipped |-> TRUE]
            ELSE RegisterEach(allTools,
                    [called |-> TRUE, registered |-> << >>, failed |-> << >>, skipped |-> FALSE])
    /\ UNCHANGED <<call, config, lm, build, httpServer, handed, mcpTools, mcpTransport, created,
                   sessionTransports, httpRequests>>
    /\ UNCHANGED <<clientState, serverVars>>

\* ------------------------------------------- extension: the HTTP MCP server
\* isValidPort(port)
isValidPort(port) == port = Port(0) \/ (port >= Port(1) /\ port <= Port(65535))

\* activate(), when the HTTP server is enabled and isValidPort rejects the
\* port: it throws 'Invalid port number', the catch around the start-up
\* shows the error message, and activation goes on.
RejectPort ==
    /\ registration.called
    /\ config.enableHttpServer
    /\ ~isValidPort(config.httpPort)
    /\ httpServer = "none"
    /\ httpServer' = "port rejected"
    /\ UNCHANGED <<call, config, lm, build, registration, handed, mcpTools, mcpTransport,
                   created, sessionTransports, httpRequests>>
    /\ UNCHANGED <<clientState, serverVars>>

\* new HttpMcpServer(...). The constructor builds the McpServer at once,
\* from the tools it has then: its argument, or, in the variant that takes
\* the tools in start(), the field `tools`, which is still [].
NewHttpMcpServer(tools) ==
    /\ registration.called
    /\ config.enableHttpServer
    /\ isValidPort(config.httpPort)
    /\ httpServer = "none"
    /\ httpServer' = "constructed"
    /\ handed' = IF build.variant = "constructor" THEN tools ELSE {}
    /\ mcpTools' = IF build.variant = "constructor" THEN tools ELSE {}
    /\ UNCHANGED <<call, config, lm, build, registration, mcpTransport, created, sessionTransports,
                   httpRequests>>
    /\ UNCHANGED <<clientState, serverVars>>

\* start(), or start(tools): the server listens. start(tools) stores the
\* tools in the field; the McpServer exists already. listen() of Node
\* throws on a port that is not an integer, before it binds: start() throws
\* and the catch of activate() shows the error message.
HttpStart(tools) ==
    /\ httpServer = "constructed"
    /\ httpServer' = IF IsInteger(config.httpPort) THEN "listening" ELSE "start failed"
    /\ handed' = IF build.variant = "start" THEN tools ELSE handed
    /\ UNCHANGED <<call, config, lm, build, registration, mcpTools, mcpTransport, created,
                   sessionTransports, httpRequests>>
    /\ UNCHANGED <<clientState, serverVars>>

\* A faulty getSession: it makes a new transport for every request.
getSessionAlwaysCreates(k) == NewTransport

\* getSession(sessionId): the transport of the map, or a new one.
getSession(k) == IF k \in sessionTransports THEN k ELSE NewTransport

\* A request without session id whose body is `initialize`: getSession makes
\* a transport and calls this.mcpServer.connect(transport), on the one
\* McpServer, without awaiting it; the transport then names the session
\* (onsessioninitialized).
Initialize(k) ==
    /\ httpServer = "listening"
    /\ created[k] = "none"
    /\ \A j \in Sessions : j < k => created[j] # "none"
    /\ IF mcpTransport = 0 \/ build.sdk = "replaces"
         THEN /\ mcpTransport' = k
              /\ created' = [created EXCEPT ![k] = "connected"]
         ELSE /\ mcpTransport' = mcpTransport
              /\ created' = [created EXCEPT ![k] = "unconnected"]
    /\ sessionTransports' = sessionTransports \cup {k}
    /\ UNCHANGED <<call, config, lm, build, registration, httpServer, handed, mcpTools, httpRequests>>
    /\ UNCHANGED <<clientState, serverVars>>

\* A tools/call request with the id of session k: its transport hands the
\* message to the protocol, which captures the transport it is connected to
\* for the response. A transport that was never connected has no onmessage.
ToolCall(r, k) ==
    /\ httpServer = "listening"
    /\ k \in sessionTransports
    /\ httpRequests[r].state = "none"
    /\ \A q \in HttpRequests : q < r => httpRequests[q].state # "none"
    /\ httpRequests' = [httpRequests EXCEPT ![r] =
          IF created[k] = "connected"
            THEN [session |-> k, state |-> "running", via |-> mcpTransport,
                  served |-> getSession(k)]
            ELSE [session |-> k, state |-> "unheard", via |-> 0,
                  served |-> getSession(k)]]
    /\ UNCHANGED <<call, config, lm, build, registration, httpServer, handed, mcpTools, mcpTransport,
                   created, sessionTransports>>
    /\ UNCHANGED <<clientState, serverVars>>

\* A tools/call request that carries the id of a session that was closed:
\* getSession finds no entry, makes a new transport and connects the
\* McpServer to it; the new transport was never initialized and answers
\* 400, and it never enters the map.
StaleCall(r, k) ==
    /\ httpServer = "listening"
    /\ created[k] = "closed"
    /\ httpRequests[r].state = "none"
    /\ \A q \in HttpRequests : q < r => httpRequests[q].state # "none"
    /\ httpRequests' = [httpRequests EXCEPT ![r] =
          [session |-> k, state |-> "rejected", via |-> 0, served |-> getSession(k)]]
    /\ mcpTransport' = IF mcpTransport = 0 \/ build.sdk = "replaces"
                         THEN NewTransport ELSE mcpTransport
    /\ UNCHANGED <<call, config, lm, build, registration, httpServer, handed, mcpTools,
                   created, sessionTransports>>
    /\ UNCHANGED <<clientState, serverVars>>

\* A DELETE request with the id of session k: the transport calls
\* onsessionclosed, which deletes the entry, and closes; the protocol
\* forgets a transport that closes.
CloseSession(k) ==
    /\ httpServer = "listening"
    /\ k \in sessionTransports
    /\ sessionTransports' = sessionTransports \ {k}
    /\ created' = [created EXCEPT ![k] = "closed"]
    /\ mcpTransport' = IF mcpTransport = k THEN 0 ELSE mcpTransport
    /\ UNCHANGED <<call, config, lm, build, registration, httpServer, handed, mcpTools,
                   httpRequests>>
    /\ UNCHANGED <<clientState, serverVars>>

\* The tool's implementation has ended: the response is sent on the
\* transport that was captured.
Complete(r) ==
    /\ httpRequests[r].state = "running"
    /\ httpRequests' = [httpRequests EXCEPT ![r].state = "answered"]
    /\ UNCHANGED <<call, config, lm, build, registration, httpServer, handed, mcpTools, mcpTransport,
                   created, sessionTransports>>
    /\ UNCHANGED <<clientState, serverVars>>

\* ------------------------------------------------ the tools: one tool call
\* 'Operation cancelled', the result invoke returns for a cancelled token.
OperationCancelled == Result(TRUE, "Operation cancelled")

\* A faulty invoke: no check of the token after the implementation.
ReturnedUnchecked(c, outcome) ==
    [c EXCEPT !.phase = "done", !.returned = outcome, !.out = outcome]

\* The implementation has ended with this outcome. Called directly, that is
\* the outcome of the call. invoke awaits the implementation: an exception
\* leaves invoke too; a result is replaced by 'Operation cancelled' when
\* token.isCancellationRequested is set by then.
Returned(c, outcome) ==
    [c EXCEPT !.phase = "done",
              !.returned = outcome,
              !.out = IF c.via = "invoke" /\ outcome.kind = "result" /\ c.cancelled # "no"
                        THEN OperationCancelled
                        ELSE outcome]

\* The text rename_file of packages/server returns after the rename.
Renamed(importsUpdated) ==
    "Renamed file. Imports updated: " \o (IF importsUpdated THEN "true" ELSE "false")

\* The text rename_file of packages/extension returns after the rename.
SuccessfullyRenamed(importsWillBeUpdated) ==
    "Successfully renamed file. Imports updated: "
       \o (IF importsWillBeUpdated THEN "true" ELSE "false")

\* The call goes on to its next request and waits for it.
Await(c, phase, request) == [c EXCEPT !.phase = phase, !.log = Append(@, request)]

\* implementation(args), from its first line to its first `await` or to its
\* end. packages/server: INPUT_SCHEMA.parse(request) stands before the try
\* block (rename_file) or in a function without one (rename_symbol).
\* packages/extension: the whole body is in a try block whose catch turns a
\* ZodError into a 'Validation error' result.
Implementation(c) ==
    IF c.input = "invalid"
      THEN IF c.impl[1] = "server"
             THEN Returned(c, Thrown("ZodError"))
             ELSE Returned(c, Result(TRUE, "Validation error"))
      ELSE CASE c.impl = <<"server", "rename_file">> ->
                   Await(c, "reading", Req("getSetting", ""))
             [] c.impl = <<"server", "rename_symbol">> ->
                   Await(c, "working", Req("renameSymbol", ""))
             [] c.impl = <<"extension", "rename_file">> ->
                   IF c.input = "malformed"
                     THEN Returned(c, Result(TRUE, "Invalid URI format"))
                     ELSE IF c.setting # "always"
                            THEN Await(c, "writing", Req("setSetting", "always"))
                            ELSE Await([c EXCEPT !.importsUpdated = TRUE],
                                       "renaming", Req("renameFile", ""))
             [] c.impl = <<"extension", "rename_symbol">> ->
                   IF c.input = "malformed"
                     THEN Returned(c, Result(TRUE, "Invalid URI format"))
                     ELSE Await(c, "working", Req("renameSymbol", ""))
             [] c.impl = <<"extension", "get_setting">> ->
                   IF c.input = "malformed"
                     THEN Returned(c, Result(TRUE, "Invalid configuration key format"))
                     ELSE Returned(c, Result(FALSE, "{key, value, scope}"))
             [] OTHER ->
                   IF c.input = "malformed"
                     THEN Returned(c, Result(TRUE, "Invalid configuration key format"))
                     ELSE Await(c, "writing", Req("setSetting", "value"))

\* The implementation, from the `await` it is suspended in to the next one
\* or to its end; done: what the awaited request or editor call did.
Resume(c, done) ==
    CASE c.impl = <<"server", "rename_file">> ->
            CASE c.phase = "reading" ->
                    IF done = "ok" /\ c.setting # "always"
                      THEN Await(c, "writing", Req("setSetting", "alweys"))
                      ELSE Await([c EXCEPT !.importsUpdated = (done = "ok")],
                                 "renaming", Req("renameFile", ""))
              [] c.phase = "writing" ->
                    Await([c EXCEPT !.setting = IF done = "ok" THEN "alweys" ELSE @],
                          "renaming", Req("renameFile", ""))
              [] OTHER ->
                    IF done = "ok"
                      THEN Returned(c, Result(FALSE, Renamed(c.importsUpdated)))
                      ELSE Returned(c, Result(TRUE, "Error renaming file. Imports updated: false}"))
      [] c.impl = <<"server", "rename_symbol">> ->
            IF done = "ok"
              THEN Returned(c, Result(FALSE, "Symbol renamed"))
              ELSE Returned(c, Thrown("request failed"))
      [] c.impl = <<"extension", "rename_file">> ->
            CASE c.phase = "writing" ->
                    Await([c EXCEPT !.setting = IF done = "ok" THEN "always" ELSE @,
                                    !.importsUpdated = (done = "ok")],
                          "renaming", Req("renameFile", ""))
              [] OTHER ->
                    CASE done = "ok" ->
                            Returned(c, Result(FALSE, SuccessfullyRenamed(c.importsUpdated)))
                      [] done = "refused" ->
                            Returned(c, Result(TRUE, "Failed to rename file"))
                      [] OTHER -> Returned(c, Result(TRUE, "Error"))
      [] c.impl = <<"extension", "rename_symbol">> ->
            CASE done = "ok" ->
                    Returned(c, Result(FALSE, "Successfully renamed symbol"))
              [] done = "refused" ->
                    Returned(c, Result(TRUE, "Failed to apply rename edits"))
              [] OTHER -> Returned(c, Result(TRUE, "Error"))
      [] OTHER ->
            IF done = "ok"
              THEN Returned(c, Result(FALSE, "{key, value, scope, success}"))
              ELSE Returned(c, Result(TRUE, "Failed to update setting"))

\* A tool is called. invoke looks at the token first and does not call the
\* implementation when cancellation was requested.
Invoke(impl, via, input, token, setting) ==
    /\ call.phase = "idle"
    /\ via = "invoke" => impl[1] = "extension"
    /\ via = "direct" => ~token
    /\ LET c == [Idle EXCEPT !.impl = impl, !.via = via, !.input = input,
                             !.setting = setting,
                             !.cancelled = IF token THEN "before" ELSE "no"]
       IN call' = IF via = "invoke" /\ token
                    THEN [c EXCEPT !.phase = "done", !.out = OperationCancelled]
                    ELSE Implementation(c)
    /\ UNCHANGED <<config, lm, build, registration, httpServer, handed, mcpTools,
                   mcpTransport, created, sessionTransports, httpRequests>>
    /\ UNCHANGED <<clientState, serverVars>>

\* Cancellation is requested on the token while the implementation waits.
Cancel ==
    /\ call.phase \notin {"idle", "done"}
    /\ call.via = "invoke"
    /\ call.cancelled = "no"
    /\ call' = [call EXCEPT !.cancelled = "during"]
    /\ UNCHANGED <<config, lm, build, registration, httpServer, handed, mcpTools,
                   mcpTransport, created, sessionTransports, httpRequests>>
    /\ UNCHANGED <<clientState, serverVars>>

\* The request or editor call the implementation waits for has ended.
\* (Only applyEdit of the editor API resolves with false.)
Answer(done) ==
    /\ call.phase \notin {"idle", "done"}
    /\ done = "refused" => (call.impl[1] = "extension" /\ call.phase \in {"renaming", "working"})
    /\ call' = Resume(call, done)
    /\ UNCHANGED <<config, lm, build, registration, httpServer, handed, mcpTools,
                   mcpTransport, created, sessionTransports, httpRequests>>
    /\ UNCHANGED <<clientState, serverVars>>

\* ------------------------------------------------------------------- Next
Next ==
    \/ Connect
    \/ Reconnect
    \/ \E t \in Slots : OnOpen(t)
    \/ \E t \in Slots : OnConnectFailed(t)
    \/ \E t \in Slots : OnClose(t)
    \/ \E e \in BOOLEAN : SendRequest(e)
    \/ \E i \in RequestIds : OnTimeout(i)
    \/ \E t \in Slots, m \in Messages : OnMessage(t, m)
    \/ Close

Spec == Init /\ [][Next]_vars

\* Armed timers fire: the event loop runs every setTimeout callback that is
\* not cleared.
FairSpec == Spec /\ \A i \in RequestIds : WF_vars(OnTimeout(i))

\* The server process: its peers and the editor API are the environment.
ServerNext ==
    \/ \E c \in Conns : Accept(c)
    \/ \E c \in Conns : \E content \in Contents : PeerSend(c, content)
    \/ \E c \in Conns : \E k \in 1..MaxChunk : Data(c, k)
    \/ \E c \in Conns : Message(c)
    \/ \E n \in Lines : \E outcome \in Outcomes : HandlerDone(n, outcome)
    \/ \E c \in Conns : SocketClose(c)
    \/ \E outcome \in [Conns -> CloseOutcomes] : Stop(outcome)

ServerSpec == InitServer /\ [][ServerNext]_vars

\* A client and a server for the life of one connection: the client's
\* requests are what the server receives, the server's frames are what the
\* client receives, in the order they were written.
RoundTripNext ==
    \/ Dial
    \/ Handshake
    \/ Opened
    \/ SendRequest(TRUE)
    \/ \E content \in Contents : Forward(content)
    \/ \E k \in 1..MaxChunk : Data(1, k)
    \/ Message(1)
    \/ \E n \in Lines : \E outcome \in Outcomes : HandlerDone(n, outcome)
    \/ Return
    \/ \E i \in RequestIds : OnTimeout(i)
    \/ OnClose(1)
    \/ SocketClose(1)

RoundTripSpec == InitServer /\ [][RoundTripNext]_vars

\* The extension process: activation registers the tools and starts the HTTP
\* MCP server; HTTP clients are the environment.
ExtensionNext ==
    \/ RegisterAllTools
    \/ RejectPort
    \/ \E tools \in ToolLists : NewHttpMcpServer(tools)
    \/ \E tools \in ToolLists : HttpStart(tools)
    \/ \E k \in Sessions : Initialize(k)
    \/ \E r \in HttpRequests : \E k \in Sessions : ToolCall(r, k)
    \/ \E r \in HttpRequests : \E k \in Sessions : StaleCall(r, k)
    \/ \E k \in Sessions : CloseSession(k)
    \/ \E r \in HttpRequests : Complete(r)

ExtensionSpec == InitExtension /\ [][ExtensionNext]_vars

\* One call of a tool: the caller, the token and what the awaited requests
\* do are the environment.
ToolNext ==
    \/ \E impl \in Implementations : \E via \in Callers : \E input \in Inputs :
          \E token \in BOOLEAN : \E setting \in SettingValues :
             Invoke(impl, via, input, token, setting)
    \/ Cancel
    \/ \E done \in Completions : Answer(done)

ToolSpec == Init /\ [][ToolNext]_vars

\* ------------------------------------------------------------ sanity
TypeOK ==
    /\ ws \in Slots \cup {NULL}
    /\ ws # NULL => transports[ws].state \in {"CONNECTING", "OPEN"}
    /\ reconnectAttempts \in 0..MAX_RECONNECT_ATTEMPTS
    /\ Cardinality(Live) + reconnectTimers <= connectCalls
    /\ pendingRequests \subseteq 1..requestId
    /\ timeouts = pendingRequests

\* The records of the callers other than id, and their timers, are untouched.
OthersUntouched(id) ==
    \A j \in RequestIds \ {id} :
        /\ settled'[j] = settled[j]
        /\ (j \in pendingRequests') = (j \in pendingRequests)
        /\ (j \in timeouts') = (j \in timeouts)

\* The entry a response r makes in the log of its caller.
ResponseEntry(r) ==
    IF Truthy(r.error)
      THEN [by |-> "response", kind |-> "reject", val |-> r.error]
      ELSE [by |-> "response", kind |-> "resolve", val |-> r.result]

\* A request that sendRequest accepted and wrote to the transport.
Written(id) == id <= requestId /\ writes[id] = 1

C2_RetiredAtMostOnce ==
    \A id \in RequestIds :
        Written(id) =>
            IF id \in pendingRequests
              THEN settled[id] = << >>
              ELSE /\ Len(settled[id]) = 1
                   /\ settled[id][1].by \in {"response", "timeout", "close"}

\* A request retired by its timeout while a transport that can still deliver
\* a response carrying its id is up.
C2_Witness ==
    /\ Written(1)
    /\ settled[1] = <<[by |-> "timeout", kind |-> "reject", val |-> "Request timeout"]>>
    /\ \E t \in Slots : transports[t].state = "OPEN"

\* ------------------------------------------------------------------ C3
\* C3: when the open transport of a connected client emits 'close' while
\* requests are pending, handling the close rejects every one of them with
\* 'Connection closed' and empties the pending map.
C3_DisconnectFlushes ==
    [][\A t \in Slots :
          (OnClose(t) /\ transports[t].state = "OPEN" /\ ws = t /\ pendingRequests # {}) =>
             /\ pendingRequests' = {}
             /\ \A i \in pendingRequests :
                   settled'[i] = Append(settled[i],
                       [by |-> "close", kind |-> "reject", val |-> "Connection closed"])]_vars

\* ------------------------------------------------------------------ C4
\* C4: every request that sendRequest took up is eventually settled, in every
\* interleaving, given that armed timers fire.
C4_EverySendSettles ==
    \A id \in RequestIds : (requestId >= id) ~> (settled[id] # << >>)

\* A request left pending by an unexpected close, settled by its timer with
\* no transport left.
C4_Witness ==
    /\ Written(1)
    /\ settled[1] = <<[by |-> "timeout", kind |-> "reject", val |-> "Request timeout"]>>
    /\ Live = {}
    /\ ~closedByOwner

\* ------------------------------------------------------------------ C5
\* C5: from a state in which this.ws is null or not OPEN, no step accepts a
\* request (no new id, no pending record, no timer, no write), and a
\* sendRequest call made there fails with the not-connected error.
C5_FailFastWhenNotConnected ==
    /\ [][~Connected =>
             /\ requestId' = requestId
             /\ pendingRequests' \subseteq pendingRequests
             /\ timeouts' \subseteq timeouts
             /\ writes' = writes]_vars
    /\ [][\A e \in BOOLEAN : (SendRequest(e) /\ ~Connected) => notConnected']_vars
    /\ [][notConnected' => (~Connected /\ UNCHANGED clientVars)]_vars

\* sendRequest was rejected while the client waited for the reconnect delay.
C5_Witness ==
    /\ notConnected
    /\ ws = NULL
    /\ reconnectTimers > 0
    /\ Live = {}

\* ------------------------------------------------------------------ C6
\* C6: between a close() call and the next connect() call no reconnection is
\* scheduled, no new transport is created and this.ws stays null.
C6_NoReconnectAfterClose ==
    [][(closedByOwner /\ closedByOwner') =>
          /\ reconnectTimers' <= reconnectTimers
          /\ Live' \subseteq Live
          /\ ws' = NULL]_vars

\* ------------------------------------------------------------------ C7
\* C7: the client never starts more than MAX_RECONNECT_ATTEMPTS reconnection
\* attempts in a row without a successful connection in between.
C7_BoundedReconnection == consecutive <= MAX_RECONNECT_ATTEMPTS

\* ------------------------------------------------------------------ C8
\* The retry loop has given up: the counter is at its maximum, no reconnect
\* timer is armed and no handshake is in progress.
GaveUp ==
    /\ reconnectAttempts = MAX_RECONNECT_ATTEMPTS
    /\ reconnectTimers = 0
    /\ \A t \in Slots : transports[t].state # "CONNECTING"

\* C8: once the attempt counter is at the maximum no further attempt is
\* scheduled; a client that has given up cannot send and stays so until the
\* owner calls connect(); and the close event that finds the counter at the
\* maximum settles no promise.
C8_RetryLoopTerminates ==
    /\ [][reconnectAttempts = MAX_RECONNECT_ATTEMPTS =>
             reconnectTimers' <= reconnectTimers]_vars
    /\ [](GaveUp => ~Connected)
    /\ [][(GaveUp /\ connectCalls' = connectCalls) => GaveUp']_vars
    /\ [][\A t \in Slots :
             ((OnClose(t) \/ OnConnectFailed(t)) /\ reconnectAttempts = MAX_RECONNECT_ATTEMPTS) =>
                 /\ settled' = settled
                 /\ firstConnect' = firstConnect
                 /\ UNCHANGED <<pendingRequests, timeouts>>]_vars

\* All attempts failed: the loop has given up with nothing left, while a
\* caller is still waiting for its response.
C8_Witness ==
    /\ GaveUp
    /\ Live = {}
    /\ connectCalls = 1
    /\ pendingRequests # {}

\* ------------------------------------------------------------------ C9
\* C9: the step in which a connecting transport opens sets the attempt
\* counter to 0, whatever it was, and with the counter below the maximum
\* every close event schedules one more attempt.
C9_SuccessResetsCounter ==
    /\ [][(\E t \in Slots : OnOpen(t)) => reconnectAttempts' = 0]_vars
    /\ [][\A t \in Slots :
             ((OnClose(t) \/ OnConnectFailed(t)) /\ reconnectAttempts < MAX_RECONNECT_ATTEMPTS) =>
                 /\ reconnectAttempts' = reconnectAttempts + 1
                 /\ reconnectTimers' = reconnectTimers + 1]_vars

\* A reconnection attempt has succeeded (the only owner call was the first
\* one, and the open transport is not its transport) and the counter is 0.
C9_Witness ==
    /\ connectCalls = 1
    /\ \E t \in Slots : transports[t].state = "OPEN" /\ ~transports[t].first
    /\ reconnectAttempts = 0
    /\ ws # NULL

\* ----------------------------------------------------------------- C10
\* C10: if the transport of the first connect() call fails while connecting,
\* the promise that call returned is rejected.
C10_FirstConnectFailureRejects ==
    firstFailed => firstConnect = "rejected"

\* ----------------------------------------------------------------- C11
\* C11: when the transport of the first connect() call fails before it has
\* opened, and the client has had no other transport, its close event
\* schedules no reconnection attempt.
C11_NoRetryBeforeFirstSuccess ==
    [][\A t \in Slots :
          (/\ OnConnectFailed(t)
           /\ transports[t].state = "CONNECTING"
           /\ transports[t].first
           /\ connectCalls = 1) =>
             /\ reconnectTimers' = reconnectTimers
             /\ reconnectAttempts' = reconnectAttempts]_vars

\* ----------------------------------------------------------------- C12
\* What the claim asks of a step, for the transports the retry timer made:
\* one that opens is this.ws and the client is connected; on it sendRequest
\* takes the request up and writes it, this.ws staying that transport; a
\* response that arrives on it for a pending request settles that request's
\* caller.
ReconnectedStep ==
    /\ \A t \in {u \in Slots : transports[u].state = "CONNECTING" /\ transports[u].retry} :
          OnOpen(t) => (ws' = t /\ Connected')
    /\ (Connected /\ transports[ws].retry) =>
          \A e \in BOOLEAN :
             SendRequest(e) =>
                /\ requestId' = requestId + 1
                /\ requestId' \in pendingRequests'
                /\ requestId' \in timeouts'
                /\ e => writes'[requestId'] = 1
                /\ ws' = ws
    /\ \A t \in {u \in Slots : transports[u].state = "OPEN" /\ transports[u].retry} :
          \A r \in {x \in Responses : x.id \in pendingRequests} :
             OnMessage(t, r) =>
                settled'[r.id] = Append(settled[r.id], ResponseEntry(r))

\* C12: a transport made by the retry timer that opens makes the client
\* usable again: it is this.ws, sendRequest is accepted and written on it,
\* and responses that arrive on it settle their callers.
C12_UsableAfterReconnection == [][ReconnectedStep]_vars

\* The same with a single connect() call made by the owner, so that the
\* client never has two transports.
UsableAfterReconnectionOneConnect == [][connectCalls = 1 => ReconnectedStep]_vars

\* The first transport opened and was lost without close() being called;
\* request 1 is still waiting; the transport the retry timer made is open
\* and is this.ws, and request 2 has been resolved by its response.
ReconnectedAndServing ==
    /\ connectCalls = 1
    /\ firstConnect = "resolved"
    /\ ~closedByOwner
    /\ \E t \in Slots :
          /\ transports[t].state = "OPEN"
          /\ transports[t].retry
          /\ ws = t
    /\ 1 \in pendingRequests
    /\ writes[1] = 1
    /\ settled[2] = <<[by |-> "response", kind |-> "resolve", val |-> "ok"]>>

\* ----------------------------------------------------------------- C13
\* C13: when the timer of a request fires, that request had no settlement
\* yet and had been written exactly once; it is rejected with 'Request
\* timeout' and leaves the pending map, nothing is written again, every
\* transport and this.ws stay as they were, and the records, timers and
\* callers of the other requests are untouched.
C13_TimeoutRejectsOnlyItsRequest ==
    [][\A id \in RequestIds :
          OnTimeout(id) =>
             /\ settled[id] = << >>
             /\ writes[id] = 1
             /\ settled'[id] = <<[by |-> "timeout", kind |-> "reject", val |-> "Request timeout"]>>
             /\ id \notin pendingRequests'
             /\ id \notin timeouts'
             /\ OthersUntouched(id)
             /\ UNCHANGED <<writes, transports, ws, reconnectAttempts, reconnectTimers>>]_vars

\* The same for the requests that sendRequest wrote.
TimeoutOfWrittenRequest ==
    [][\A id \in RequestIds :
          (OnTimeout(id) /\ Written(id)) =>
             /\ settled[id] = << >>
             /\ writes[id] = 1
             /\ settled'[id] = <<[by |-> "timeout", kind |-> "reject", val |-> "Request timeout"]>>
             /\ id \notin pendingRequests'
             /\ id \notin timeouts'
             /\ OthersUntouched(id)
             /\ UNCHANGED <<writes, transports, ws, reconnectAttempts, reconnectTimers>>]_vars

\* ------------------------------------------------ server: what is observed
\* The positions of the frames written on connection c that carry the id.
Frames(c, id) == {i \in 1..Len(written[c]) : written[c][i].id = id}

\* JSON.parse has returned the request with this id on connection c.
DecodedOn(c, id) == \E i \in 1..Len(decoded[c]) : decoded[c][i] = id

\* The command has a case in the dispatcher's switch (among the commands the
\* peers send).
HasHandler(command) ==
    IF dispatcher = "ipc" THEN command \in {RENAME_FILE, GET_SETTING} ELSE command = RENAME_FILE

\* Only a new connection, a socket's close event and stop() change the
\* state of a connection or the registry: no dispatch does.
DispatchKeepsConnections ==
    [][(conns' # conns \/ sockets' # sockets) =>
          \/ \E c \in Conns : Accept(c) \/ SocketClose(c)
          \/ \E outcome \in [Conns -> CloseOutcomes] : Stop(outcome)]_vars

\* ----------------------------------------------------------------- C14
\* C14: for every request the server has decoded, at most one frame with the
\* request's id is ever written, and only on the connection the request was
\* sent and decoded on; while that connection is open there is no such frame
\* as long as the handler is waiting and exactly one as soon as the dispatch
\* has ended, whatever the command and the handler's outcome.
C14_OneResponsePerRequest ==
    \A c \in Conns : \A n \in Lines :
       /\ Cardinality(Frames(c, WireId(n))) <= 1
       /\ Frames(c, WireId(n)) # {} => (DecodedOn(c, WireId(n)) /\ asked[n].conn = c)
       /\ (DecodedOn(c, WireId(n)) /\ conns[c] = "open") =>
             Cardinality(Frames(c, WireId(n))) = IF InFlight(WireId(n)) THEN 0 ELSE 1

\* Three requests were decoded on one open connection and answered once each:
\* a handler that succeeded, a handler that failed, a command without
\* handler.
C14_Witness ==
    \E c \in Conns :
       /\ conns[c] = "open"
       /\ tasks = {}
       /\ Len(decoded[c]) = 3
       /\ Len(written[c]) = 3
       /\ \E i, j, k \in 1..3 :
             /\ written[c][i].result # Absent
             /\ written[c][j].error = "rename failed"
             /\ \E n \in Lines :
                   /\ written[c][k].id = WireId(n)
                   /\ asked[n].command = "doesNotExist"

\* ----------------------------------------------------------------- C15
\* C15: once a request whose command has no handler has been decoded on a
\* connection that is open, the frame {id: the request's id, error: "Unknown
\* command: <the command>"}, without result, has been written on that
\* connection.
C15_UnknownCommand ==
    \A n \in Lines :
       (/\ asked[n].conn # 0
        /\ ~HasHandler(asked[n].command)
        /\ conns[asked[n].conn] = "open"
        /\ DecodedOn(asked[n].conn, WireId(n))) =>
          \E i \in 1..Len(written[asked[n].conn]) :
             written[asked[n].conn][i] =
                [id |-> WireId(n), result |-> Absent,
                 error |-> "Unknown command: " \o asked[n].command]

\* The same for the IPC server and for handleMessage of handlers.ts.
UnknownCommandNamed == dispatcher # "inline" => C15_UnknownCommand

\* ----------------------------------------------------------------- C16
\* C16: when the handler of a request returns or throws while the request's
\* connection is open, the next frame written on that connection has the
\* request's id and carries the error's message if it threw (and no result),
\* the returned value if it returned (and no error); the step closes no
\* connection, leaves the registry, the other connections' frames, every
\* buffer and every other waiting handler as they were.
C16_HandlerFailureIsAnswered ==
    [][\A task \in tasks : \A n \in Lines : \A outcome \in Outcomes :
          (/\ task.request.id = WireId(n)
           /\ conns[task.conn] = "open"
           /\ HandlerDone(n, outcome)) =>
             /\ Len(written'[task.conn]) > Len(written[task.conn])
             /\ SubSeq(written'[task.conn], 1, Len(written[task.conn])) = written[task.conn]
             /\ written'[task.conn][Len(written[task.conn]) + 1].id = task.request.id
             /\ IF outcome.kind = "throws"
                  THEN /\ written'[task.conn][Len(written[task.conn]) + 1].error = outcome.val
                       /\ written'[task.conn][Len(written[task.conn]) + 1].result = Absent
                  ELSE /\ written'[task.conn][Len(written[task.conn]) + 1].error = Absent
                       /\ written'[task.conn][Len(written[task.conn]) + 1].result # Absent
             /\ conns' = conns
             /\ sockets' = sockets
             /\ buffer' = buffer
             /\ wire' = wire
             /\ \A b \in Conns \ {task.conn} : written'[b] = written[b]
             /\ tasks \ {task} \subseteq tasks']_vars

\* Requests 1 and 2 were decoded on one connection and were waiting for the
\* editor together: the handler of request 2 threw and its error was written,
\* then the handler of request 1 returned and its result was written; the
\* connection is open.
C16_Witness ==
    \E c \in Conns :
       /\ conns[c] = "open"
       /\ c \in sockets
       /\ decoded[c] = <<WireId(1), WireId(2)>>
       /\ Len(written[c]) = 2
       /\ written[c][1] = [id |-> WireId(2), result |-> Absent, error |-> "rename failed"]
       /\ written[c][2].id = WireId(1)
       /\ written[c][2].result # Absent
       /\ written[c][2].error = Absent

\* ----------------------------------------------------------------- C17
\* C17: every frame written on a connection has a result or an error, and
\* not both.
C17_ResultXorError ==
    \A c \in Conns : \A i \in 1..Len(written[c]) :
       (written[c][i].result # Absent) # (written[c][i].error # Absent)

\* A connection on which a result, an error with an empty message and the
\* error of a command without handler have been written.
C17_Witness ==
    \E c \in Conns : \E i, j, k \in 1..Len(written[c]) :
       /\ written[c][i].result # Absent
       /\ written[c][j].error = ""
       /\ written[c][k].error \in {"Unknown command", "Unknown command: doesNotExist"}

\* ----------------------------------------------------------------- C18
\* C18: a text that JSON.parse rejects is discarded: every frame written on
\* a connection carries the id of a request decoded on that connection
\* (nothing is written for the rejected text).
C18_MalformedLineDiscarded ==
    \A c \in Conns : \A i \in 1..Len(written[c]) :
       DecodedOn(c, written[c][i].id)

\* What is left of it for the three dispatchers: once everything the peer
\* sent on an open connection has been received and no handler is waiting,
\* every request sent on it has been decoded and answered once, whatever
\* rejected or blank lines came before it or with it in the same chunk.
RequestsAfterMalformedAnswered ==
    \A c \in Conns :
       (/\ conns[c] = "open"
        /\ wire[c] = << >>
        /\ \A task \in tasks : task.conn # c) =>
          \A n \in Lines :
             asked[n].conn = c =>
                /\ DecodedOn(c, WireId(n))
                /\ Cardinality(Frames(c, WireId(n))) = 1

\* A line JSON.parse rejected and, after it, a request in the same chunk
\* that has been answered, on a connection that is open.
MalformedThenAnswered ==
    \E c \in Conns :
       /\ conns[c] = "open"
       /\ parseErrors[c] = 1
       /\ asked[1].conn = 0
       /\ asked[2].conn = c
       /\ Frames(c, WireId(2)) # {}

\* ----------------------------------------------------------------- C21
\* The line a request id was sent as.
Index(id) == CHOOSE n \in Lines : WireId(n) = id

\* The ids of the requests among a sequence of lines.
RequestsIn(lines) ==
    {JsonParse(lines[i]).id : i \in {j \in 1..Len(lines) : Parses(lines[j])}}

\* The requests sent on connection c.
AskedOn(c) == {WireId(n) : n \in {m \in Lines : asked[m].conn = c}}

\* The requests of connection c whose line waits behind a suspended handler
\* of the same chunk.
Queued(c) == UNION {RequestsIn(task.rest) : task \in {t \in tasks : t.conn = c}}

\* On the IPC server no chunking loses or repeats a line: the requests sent
\* on an open connection are those decoded, those queued behind a suspended
\* handler and those still in the buffer or not yet received, and no request
\* is in two of these; the buffer never holds a complete line.
ChunkingKeepsEveryLine ==
    dispatcher = "ipc" =>
       \A c \in Conns :
          /\ \A i \in 1..Len(buffer[c]) : buffer[c][i] # NL
          /\ conns[c] = "open" =>
                /\ AskedOn(c) = {decoded[c][i] : i \in 1..Len(decoded[c])}
                                   \cup Queued(c)
                                   \cup RequestsIn(Split(buffer[c] \o wire[c]))
                /\ Cardinality(AskedOn(c)) =
                      Len(decoded[c]) + Cardinality(Queued(c))
                         + Cardinality(RequestsIn(Split(buffer[c] \o wire[c])))

\* C21: on the IPC server, whatever the chunks, the requests handed to
\* JSON.parse on a connection are the complete lines of what was sent on it
\* (none lost, none twice, a partial line kept in the buffer until it is
\* complete), handed over in the order of the lines.
C21_LinesInOrder ==
    /\ ChunkingKeepsEveryLine
    /\ dispatcher = "ipc" =>
          \A c \in Conns : \A i, j \in 1..Len(decoded[c]) :
             i < j => Index(decoded[c][i]) < Index(decoded[c][j])

\* A request that arrived cut in two chunks has been decoded and answered.
SplitRequestDecoded ==
    \E c \in Conns :
       /\ dispatcher = "ipc"
       /\ conns[c] = "open"
       /\ decoded[c] = <<WireId(1)>>
       /\ Len(written[c]) = 1
       /\ Len(buffer[c]) = 1
       /\ buffer[c][1].n = 2

\* ----------------------------------------------------------------- C22
\* C22: the id sendRequest gives to a new request is the id of no pending
\* request, so the new record is added to the map and replaces none.
C22_FreshRequestId ==
    [][requestId' # requestId =>
          \A id \in RequestIds :
             (writes'[id] # writes[id] \/ settled'[id] # settled[id]) =>
                /\ id \notin pendingRequests
                /\ pendingRequests' = pendingRequests \cup {id}]_vars

\* Two requests of one client are in flight at once.
TwoRequestsPending ==
    /\ pendingRequests = {1, 2}
    /\ writes[1] = 1
    /\ writes[2] = 1

\* ----------------------------------------------------------------- C24
\* The transports of the client that are open or connecting.
OpenOrConnecting == {t \in Slots : ReadyState(t) \in {"OPEN", "CONNECTING"}}

\* C24: at most one transport created by the client is open or connecting,
\* and this.ws refers to it.
C24_OneLiveTransport ==
    /\ Cardinality(OpenOrConnecting) <= 1
    /\ \A t \in OpenOrConnecting : ws = t

\* As long as the owner has called connect() once, the same holds, whatever
\* the closes, failures and reconnections.
OneLiveTransportOneConnect ==
    connectCalls <= 1 => C24_OneLiveTransport

\* ----------------------------------------------------------------- C25
\* Every connection is closed and the registry is empty.
AllClosed == sockets = {} /\ \A c \in Conns : conns[c] # "open"

\* C25: a call of stop() closes every connection of the registry and leaves
\* the registry empty, whether closing a connection fails or not.
C25_StopClosesAll == [][server' # server => AllClosed']_vars

\* When no call that closes a connection throws, stop() closes them all,
\* empties the registry and gives up the server.
StopClosesAllWhenNoneThrows == [][server' = "stopped" => AllClosed']_vars

\* stop() has closed two connections.
StoppedWithTwoConnections ==
    /\ server = "stopped"
    /\ \A c \in Conns : conns[c] = "closed"
    /\ \E c \in Conns : written[c] # << >>

\* ----------------------------------------------------------------- C26
\* The frames a step writes on connection c.
NewFrames(c) == {written'[c][i] : i \in (Len(written[c]) + 1)..Len(written'[c])}

\* C26: a step changes the receive buffer of a connection only when data of
\* that connection is delivered, and then the buffer of no other connection;
\* a step that writes frames writes them on one connection, and each of them
\* that answers a request answers one that arrived on that connection.
C26_ConnectionsIsolated ==
    [][\A c \in Conns :
          /\ buffer'[c] # buffer[c] =>
                /\ Len(wire'[c]) < Len(wire[c])
                /\ \A d \in Conns \ {c} : buffer'[d] = buffer[d]
          /\ written'[c] # written[c] =>
                /\ \A d \in Conns \ {c} : written'[d] = written[d]
                /\ \A frame \in NewFrames(c) : \A n \in Lines :
                      frame.id = WireId(n) => asked[n].conn = c]_vars

\* Two connections are open, each with an incomplete line in its buffer,
\* and a response has been written on one of them.
TwoConnectionsBuffering ==
    /\ dispatcher = "ipc"
    /\ \A c \in Conns : conns[c] = "open" /\ buffer[c] # << >>
    /\ \E c \in Conns : written[c] # << >>

AsIpc(c) == RunLines(c, <<Split(wire[c])[1]>>, Start(c))

\* C27: every step of the WebSocket dispatcher (handleMessage of handlers.ts)
\* is the step the IPC dispatcher makes on the same message: the same frames
\* are written, the same handler is started, and a handler that ends is
\* answered with the same frame.
C27_VariantsAgree ==
    [][dispatcher = "ws" =>
          /\ \A c \in Conns :
                Message(c) => /\ written'[c] = written[c] \o AsIpc(c).out
                              /\ tasks' = tasks \cup AsIpc(c).task
          /\ \A n \in Lines : \A outcome \in Outcomes :
                (HandlerDone(n, outcome) /\ conns[TaskOf(WireId(n)).conn] = "open") =>
                   written'[TaskOf(WireId(n)).conn] =
                      Append(written[TaskOf(WireId(n)).conn],
                             Stringify(IpcSettled(TaskOf(WireId(n)).request, outcome)))]_vars

\* The two dispatchers answer alike a request whose command neither knows
\* and a renameFile whose handler throws.
VariantsAgreeOnErrors ==
    [][dispatcher = "ws" =>
          /\ \A c \in Conns :
                (Message(c) /\ Parses(Split(wire[c])[1])
                   /\ JsonParse(Split(wire[c])[1]).command \notin {RENAME_FILE, GET_SETTING}) =>
                      written'[c] = written[c] \o AsIpc(c).out
          /\ \A n \in Lines : \A outcome \in Outcomes :
                (HandlerDone(n, outcome) /\ conns[TaskOf(WireId(n)).conn] = "open"
                   /\ outcome.kind = "throws") =>
                   written'[TaskOf(WireId(n)).conn] =
                      Append(written[TaskOf(WireId(n)).conn],
                             Stringify(IpcSettled(TaskOf(WireId(n)).request, outcome)))]_vars

\* ----------------------------------------------------------------- C28
\* C28: every HTTP request is answered on the session that issued it, also
\* when sessions were created after its own: none is left unheard, and none
\* is answered through the transport of another session.
C28_SessionsIndependent ==
    \A r \in HttpRequests :
       /\ httpRequests[r].state # "unheard"
       /\ httpRequests[r].state \in {"running", "answered"} =>
             httpRequests[r].via = httpRequests[r].session

\* With a single session, every request is heard and answered on it.
OneSessionAnswered ==
    Cardinality({k \in Sessions : created[k] # "none"}) <= 1 => C28_SessionsIndependent

\* ----------------------------------------------------------------- C29
\* C29: the tools registered on the McpServer of a listening HttpMcpServer
\* are the tools the HttpMcpServer was handed.
C29_AllToolsExposed == httpServer = "listening" => mcpTools = handed

\* The HttpMcpServer that takes the tools in its constructor registers them
\* all.
ConstructorExposesAll ==
    (httpServer # "none" /\ build.variant = "constructor") => mcpTools = handed

\* ----------------------------------------------------------------- C30
\* The names in a sequence of names, and in the list `failed`.
Names(seq) == {seq[i] : i \in 1..Len(seq)}
FailedNames == {registration.failed[i].name : i \in 1..Len(registration.failed)}

\* C30: once registerAllTools has returned, with the registerTool API
\* available every tool of allTools is in exactly one of `registered` and
\* `failed` (those whose registration threw, also when an earlier one
\* threw), once, and skipped is false; without the API both lists are empty
\* and skipped is true.
C30_EveryToolAttempted ==
    registration.called =>
       IF lm.available
         THEN /\ ~registration.skipped
              /\ Names(registration.registered) = ToolNames \ lm.refuses
              /\ FailedNames = lm.refuses
              /\ Len(registration.registered) + Len(registration.failed) = Len(allTools)
         ELSE /\ registration.skipped
              /\ registration.registered = << >>
              /\ registration.failed = << >>

\* The first registration threw and the tools after it were registered.
FirstFailedRestRegistered ==
    /\ registration.called
    /\ FailedNames = {allTools[1]}
    /\ registration.registered = Tail(allTools)

\* ----------------------------------------------------------------- C34
\* The log of request id shows no timeout callback that ran after a
\* response or close() had cancelled the timer.
NoCancelledTimerRan(id) ==
    \A n \in 1..Len(settled[id]) :
        settled[id][n].by = "timeout" =>
            \A m \in 1..(n - 1) : settled[id][m].by \notin {"response", "close"}

\* C34: in every reachable state the timer of a request is armed exactly
\* when its record is in the pending map, and no timeout callback has run
\* for a request after a response or close() removed its record.
C34_TimerIffRecord ==
    \A id \in RequestIds :
        /\ (id \in timeouts) <=> (id \in pendingRequests)
        /\ NoCancelledTimerRan(id)

\* One request was retired by its response and the other by its timeout;
\* neither has a record or a timer left.
TimersGoneWithRecords ==
    /\ settled[1] = <<[by |-> "response", kind |-> "resolve", val |-> "ok"]>>
    /\ settled[2] = <<[by |-> "timeout", kind |-> "reject", val |-> "Request timeout"]>>
    /\ pendingRequests = {}
    /\ timeouts = {}
    /\ \E t \in Slots : transports[t].state = "OPEN"

\* ----------------------------------------------------------------- C35
\* C35: with two requests pending, a response to the one sent later settles
\* that one and leaves the earlier one pending with its timer; a response
\* that then arrives for the earlier one settles it, and the later one keeps
\* the settlement it has.
C35_CompletionOrderFree ==
    [][\A r \in {x \in Responses : x.id \in pendingRequests} :
          \A i \in RequestIds \ {r.id} :
             ((i \in pendingRequests /\ i < r.id)
                 \/ (i \notin pendingRequests /\ r.id < i /\ settled[i] # << >>)) =>
                \A t \in {u \in Slots : transports[u].state \in {"OPEN", "CLOSING"}} :
                   OnMessage(t, r) =>
                      /\ settled'[r.id] = Append(settled[r.id], ResponseEntry(r))
                      /\ r.id \notin pendingRequests'
                      /\ (i \in pendingRequests') = (i \in pendingRequests)
                      /\ (i \in timeouts') = (i \in timeouts)
                      /\ settled'[i] = settled[i]]_vars

\* Both requests were written on the one transport of the client; the later
\* one has been resolved by its response and the earlier one still waits.
LaterResolvedFirst ==
    /\ connectCalls = 1
    /\ writes[1] = 1
    /\ writes[2] = 1
    /\ settled[2] = <<[by |-> "response", kind |-> "resolve", val |-> "ok"]>>
    /\ settled[1] = << >>
    /\ pendingRequests = {1}
    /\ timeouts = {1}

\* ----------------------------------------------------------------- C40
\* C40: every record in the pending map belongs to a request that was
\* written to the transport, and a request whose sendRequest call was
\* rejected by a synchronous failure has no record and no timer.
C40_PendingWasWritten ==
    \A id \in RequestIds :
        /\ id \in pendingRequests => writes[id] = 1
        /\ (settled[id] # << >> /\ settled[id][1].by = "throw") =>
              (id \notin pendingRequests /\ id \notin timeouts)

\* The same for the calls whose arguments JSON.stringify can encode.
EncodedPendingWasWritten ==
    \A id \in RequestIds :
        (\A n \in 1..Len(settled[id]) : settled[id][n].by # "throw") =>
            (id \in pendingRequests => writes[id] = 1)

\* ----------------------------------------------------------------- C36
\* C36: on the servers that keep a registry, the registry holds exactly the
\* connections that were accepted and have not closed or failed; a step
\* changes it only by adding the connection it accepts, by removing the
\* connection whose close or error event it handles, or inside stop(), which
\* leaves it empty when it runs to its end.
C36_RegistryIsOpenConnections ==
    /\ [](dispatcher # "inline" => sockets = {c \in Conns : conns[c] = "open"})
    /\ [][sockets' # sockets =>
             \/ \E c \in Conns \ sockets : Accept(c) /\ sockets' = sockets \cup {c}
             \/ \E c \in sockets : SocketClose(c) /\ sockets' = sockets \ {c}
             \/ \E outcome \in [Conns -> CloseOutcomes] :
                   /\ Stop(outcome)
                   /\ sockets' \subseteq sockets
                   /\ \A c \in sockets \ sockets' : conns'[c] = "closed"
                   /\ server' = "stopped" => sockets' = {}]_vars

\* Two connections were accepted; the first has closed and left the
\* registry, the second is in it.
OneClosedOneRegistered ==
    /\ dispatcher # "inline"
    /\ server = "listening"
    /\ conns[1] = "closed"
    /\ conns[2] = "open"
    /\ sockets = {2}

\* ----------------------------------------------------------------- C37
\* The frames written on connection c in this step.
WrittenNow(c) == SubSeq(written'[c], Len(written[c]) + 1, Len(written'[c]))

\* The ids decoded on connection c in this step.
DecodedNow(c) == SubSeq(decoded'[c], Len(decoded[c]) + 1, Len(decoded'[c]))

\* C37: on the IPC server the lines of one chunk are dispatched one after
\* another: while a handler is suspended the later requests of its chunk
\* are neither decoded nor in flight, an invocation stops decoding at the
\* request it suspends on, and when the handler ends its response is the
\* first frame written before the later lines of the chunk are decoded in
\* line order. (Invocations of other chunks and connections are not
\* constrained: see the witness.)
C37_ChunkDispatchedInLineOrder ==
    /\ [](dispatcher = "ipc" =>
             \A task \in tasks : \A id \in RequestsIn(task.rest) :
                /\ ~DecodedOn(task.conn, id)
                /\ ~InFlight(id)
                /\ Frames(task.conn, id) = {}
                /\ Index(task.request.id) < Index(id))
    /\ [][dispatcher = "ipc" =>
             /\ Cardinality(tasks' \ tasks) <= 1
             /\ \A task \in tasks' \ tasks :
                   /\ decoded'[task.conn] # decoded[task.conn]
                   /\ decoded'[task.conn][Len(decoded'[task.conn])] = task.request.id
             /\ \A task \in tasks \ tasks' :
                   /\ conns[task.conn] = "open" =>
                         /\ WrittenNow(task.conn) # << >>
                         /\ WrittenNow(task.conn)[1].id = task.request.id
                   /\ \A i \in 1..Len(DecodedNow(task.conn)) :
                         /\ DecodedNow(task.conn)[i] \in RequestsIn(task.rest)
                         /\ \A j \in 1..(i - 1) :
                               Index(DecodedNow(task.conn)[j]) < Index(DecodedNow(task.conn)[i])]_vars

\* A handler is suspended with a request of its chunk waiting behind it,
\* and the handler of a request of another chunk is in flight as well.
QueuedBehindWhileOtherInFlight ==
    /\ dispatcher = "ipc"
    /\ \E t1, t2 \in tasks :
          /\ t1 # t2
          /\ RequestsIn(t1.rest) # {}

\* ----------------------------------------------------------------- C31
\* C31: an implementation that was given an input failing its schema ends by
\* returning a result with isError set whose text describes the validation
\* failure; it does not end with an exception.
C31_ValidationErrorReturned ==
    (call.input = "invalid" /\ call.returned # NoOutcome) =>
        /\ call.returned.kind = "result"
        /\ call.returned.isError
        /\ call.returned.text = "Validation error"

\* The same for the implementations of packages/extension.
ExtensionValidationErrorReturned ==
    (call.impl[1] = "extension" /\ call.input = "invalid" /\ call.returned # NoOutcome) =>
        /\ call.returned.kind = "result"
        /\ call.returned.isError
        /\ call.returned.text = "Validation error"

\* ----------------------------------------------------------------- C32
\* The positions of the file rename in the requests of the call.
RenameRequests == {n \in 1..Len(call.log) : call.log[n].op = "renameFile"}

\* The setting was requested to be 'always' before request n of the call.
AlwaysRequestedBefore(n) ==
    \E m \in 1..(n - 1) : call.log[m] = Req("setSetting", "always")

\* C32: when rename_file issues the file rename while the setting is not
\* 'always', it has requested before that the setting be set to 'always'.
C32_SetsAlwaysBeforeRename ==
    (call.impl[2] = "rename_file" /\ call.setting # "always") =>
        \A n \in RenameRequests : AlwaysRequestedBefore(n)

\* The same for rename_file of packages/extension.
ExtensionRenameSetsAlways ==
    (call.impl = <<"extension", "rename_file">> /\ call.setting # "always") =>
        \A n \in RenameRequests : AlwaysRequestedBefore(n)

\* ----------------------------------------------------------------- C39
\* C39: a call through invoke whose token was cancelled beforehand makes no
\* request, runs no implementation and returns 'Operation cancelled'; a call
\* whose token was cancelled while the implementation ran returns 'Operation
\* cancelled' in place of the result the implementation returned.
C39_CancelledInvokeReturnsCancelled ==
    call.via = "invoke" =>
        /\ call.cancelled = "before" =>
              /\ call.phase = "done"
              /\ call.log = << >>
              /\ call.returned = NoOutcome
              /\ call.out = OperationCancelled
        /\ (call.cancelled = "during" /\ call.phase = "done"
               /\ call.returned.kind = "result") =>
              call.out = OperationCancelled
        /\ (call.cancelled = "no" /\ call.phase = "done") => call.out = call.returned

\* rename_file was cancelled while it waited for the editor; the rename was
\* applied and its result was replaced.
CancelledWhileRenaming ==
    /\ call.via = "invoke"
    /\ call.cancelled = "during"
    /\ call.phase = "done"
    /\ call.returned = Result(FALSE, SuccessfullyRenamed(TRUE))
    /\ call.out = OperationCancelled

\* ----------------------------------------------------------------- C33
\* The configured port is 0 or an integer in 1..65535.
PortInRange ==
    \/ config.httpPort = Port(0)
    \/ /\ IsInteger(config.httpPort)
       /\ config.httpPort >= Port(1)
       /\ config.httpPort <= Port(65535)

\* C33: the HTTP MCP server is constructed or started only when the
\* configured port is 0 or an integer in 1..65535; with any other port the
\* start-up ends with the error message of the port check, after the tools
\* were registered.
C33_PortValidatedBeforeStart ==
    /\ httpServer \in {"constructed", "listening", "start failed"} => PortInRange
    /\ httpServer = "port rejected" => (~PortInRange /\ registration.called)

\* The same when the configured port is an integer.
IntegerPortValidatedBeforeStart ==
    IsInteger(config.httpPort) =>
       /\ httpServer \in {"constructed", "listening", "start failed"} => PortInRange
       /\ httpServer = "port rejected" => (~PortInRange /\ registration.called)

\* ----------------------------------------------------------------- C38
\* C38: the keys of the session map are the sessions that were initialized
\* and have not been closed, and a request that carries the id of a session
\* in the map is handed to the transport of that session: no transport is
\* made for it and the McpServer is not connected anew.
C38_SessionMapAndLookup ==
    /\ [](sessionTransports = {k \in Sessions : created[k] \in {"connected", "unconnected"}})
    /\ [][\A r \in HttpRequests :
             (httpRequests[r].state = "none" /\ httpRequests'[r].state # "none"
                 /\ httpRequests'[r].session \in sessionTransports) =>
                /\ httpRequests'[r].served = httpRequests'[r].session
                /\ created' = created
                /\ mcpTransport' = mcpTransport]_vars

\* Session 1 was closed and a request carrying its id got a new transport;
\* session 2 is in the map and a request carrying its id was handed to the
\* transport of session 2.
ClosedSessionGoneOpenSessionServed ==
    /\ created[1] = "closed"
    /\ sessionTransports = {2}
    /\ httpRequests[1].session = 1
    /\ httpRequests[1].served = NewTransport
    /\ httpRequests[2].session = 2
    /\ httpRequests[2].served = 2

\* ----------------------------------------------------------------- C19
\* C19: a frame whose text is not JSON settles no caller, leaves the pending
\* map and every timer as they were, closes no transport and schedules no
\* reconnection.
C19_MalformedMessageIgnored ==
    /\ [][\A t \in Slots : OnMessage(t, NotJson) => dropped' = "parse"]_vars
    /\ [][dropped' = "parse" =>
             UNCHANGED <<pendingRequests, timeouts, settled, requestId, writes,
                         transports, ws, reconnectAttempts, reconnectTimers>>]_vars

\* A frame that is not JSON has just been handled while both requests were
\* pending on the open transport.
C19_Witness ==
    /\ dropped = "parse"
    /\ pendingRequests = {1, 2}
    /\ timeouts = {1, 2}
    /\ ws # NULL
    /\ transports[ws].state = "OPEN"

\* ----------------------------------------------------------------- C20
\* C20: a response whose id has no record in the pending map is dropped: the
\* map, every timer, every caller's log, the transports, this.ws and the
\* attempt counter stay as they were (and every 'message' step that carries
\* such a response is a step of that kind).
C20_UnknownIdDropped ==
    [][/\ dropped' = "unknown id" =>
             UNCHANGED <<pendingRequests, timeouts, settled, requestId, writes,
                         transports, ws, reconnectAttempts, reconnectTimers>>
       /\ dropped' # "unknown id" =>
             \A t \in {u \in Slots : transports[u].state \in {"OPEN", "CLOSING"}} :
                \A r \in {x \in Responses : x.id \notin pendingRequests} :
                   ~OnMessage(t, r)]_vars

\* A response has just been dropped while request 1 was already retired by
\* its timeout and request 2 was pending: it carried the id of request 1.
C20_Witness ==
    /\ dropped = "unknown id"
    /\ settled[1] = <<[by |-> "timeout", kind |-> "reject", val |-> "Request timeout"]>>
    /\ pendingRequests = {2}
    /\ timeouts = {2}
    /\ \E t \in Slots : transports[t].state = "OPEN"

====
